---- MODULE Spec2Model ----
(***************************************************************************)
(* Model of the text-to-JSON extraction agent: the chunk-processing        *)
(* control loop (agent/graph.py, agent/nodes.py) and the JSON Patch tool   *)
(* (tools/apply_patches.py) it dispatches to.                              *)
(*                                                                         *)
(* JSON documents are finite trees.  A document is a function from the     *)
(* paths of its nodes (sequences of reference tokens, root = << >>) to a   *)
(* node label: "object", "array" or a scalar.  Array elements live under   *)
(* the tokens "0", "1", ... exactly as RFC 6901 addresses them.            *)
(***************************************************************************)
EXTENDS Integers, Sequences, FiniteSets, TLC

(***************************************************************************)
(* Bounds of the model.                                                    *)
(***************************************************************************)
MaxDocNodes == 4
MaxPatchLen == 2
MaxChunks == 2
MaxIterCap == 2
MaxStrLen == 5
MaxReadDepth == 2
MaxItems == 2
MaxLimit == 2
MaxTextLen == 3

(***************************************************************************)
(* A local variable: Body evaluated with its parameter bound to value.     *)
(***************************************************************************)
Bind(value, Body(_)) == Body(value)

(***************************************************************************)
(* JSON values.                                                            *)
(***************************************************************************)
NumOne == "n:1"
StrJ == "s:J"

Kind(label) ==
    CASE label = "object" -> "obj"
      [] label = "array"  -> "arr"
      [] label = StrJ     -> "str"
      [] OTHER            -> "num"

EmptyObj == (<< >> :> "object")
EmptyArr == (<< >> :> "array")
Scalar(label) == (<< >> :> label)
NoDoc == << >>

IsPrefix(p, q) == Len(p) <= Len(q) /\ SubSeq(q, 1, Len(p)) = p

IndexRange == 0..(2 * MaxDocNodes + 2 * MaxPatchLen)
IndexToken(i) == ToString(i)
IsIndexToken(tok) == \E i \in IndexRange : IndexToken(i) = tok
TokenIndex(tok) == CHOOSE i \in IndexRange : IndexToken(i) = tok

\* the subtree of d rooted at path p, as a document of its own
Sub(d, p) ==
    LET under == {q \in DOMAIN d : IsPrefix(p, q)}
        rel   == {SubSeq(q, Len(p) + 1, Len(q)) : q \in under}
    IN  [r \in rel |-> d[p \o r]]

\* d without the subtree rooted at p
Prune(d, p) ==
    [q \in {q \in DOMAIN d : ~IsPrefix(p, q)} |-> d[q]]

\* d with the subtree at p replaced (or created) by the document v
Graft(d, p, v) ==
    LET keep == {q \in DOMAIN d : ~IsPrefix(p, q)}
        new  == {p \o r : r \in DOMAIN v}
    IN  [q \in keep \cup new |->
            IF IsPrefix(p, q) THEN v[SubSeq(q, Len(p) + 1, Len(q))] ELSE d[q]]

\* number of children of the node at p (len() of a list, of a dict)
ChildCount(d, p) ==
    Cardinality({q \in DOMAIN d : Len(q) = Len(p) + 1 /\ IsPrefix(p, q)})

\* renumber by delta the elements of the array at p whose index is >= i
ArrShift(d, p, i, delta) ==
    LET n == Len(p) + 1
        moves(q) == IsPrefix(p, q) /\ Len(q) >= n /\ TokenIndex(q[n]) >= i
        ren(q) == IF moves(q)
                  THEN [q EXCEPT ![n] = IndexToken(TokenIndex(q[n]) + delta)]
                  ELSE q
        dom == {ren(q) : q \in DOMAIN d}
    IN  [r \in dom |-> d[CHOOSE q \in DOMAIN d : ren(q) = r]]

\* list.insert(i, v) and del list[i] on the array at p
ArrInsert(d, p, i, v) == Graft(ArrShift(d, p, i, 1), p \o <<IndexToken(i)>>, v)
ArrDelete(d, p, i) == ArrShift(Prune(d, p \o <<IndexToken(i)>>), p, i + 1, -1)

(***************************************************************************)
(* jsonpointer, as used by jsonpatch (called from tools/apply_patches.py). *)
(* A pointer is given by its reference tokens.  Resolution yields a        *)
(* reference: a node of the document ("loc"), a character taken out of a   *)
(* string ("chr": Python strings are Sequences, so "J"[0] resolves),       *)
(* the EndOfList marker ("eol") or a raised JsonPointerException ("exc").  *)
(***************************************************************************)
RootRef == [t |-> "loc", p |-> << >>]
ChrRef == [t |-> "chr", p |-> << >>]
EolRef == [t |-> "eol", p |-> << >>]
ExcRef == [t |-> "exc", p |-> << >>]

RefKind(d, ref) ==
    CASE ref.t = "loc" -> Kind(d[ref.p])
      [] ref.t = "chr" -> "str"
      [] OTHER         -> ref.t

\* len() of the list or string a reference denotes
RefLen(d, ref) == IF ref.t = "loc" /\ Kind(d[ref.p]) = "arr" THEN ChildCount(d, ref.p) ELSE 1

PartNone == [k |-> "none", i |-> 0, s |-> ""]
PartDash == [k |-> "dash", i |-> 0, s |-> "-"]
PartInt(n) == [k |-> "int", i |-> n, s |-> IndexToken(n)]
PartKey(tok) == [k |-> "key", i |-> 0, s |-> tok]
PartExc == [k |-> "exc", i |-> 0, s |-> ""]

\* JsonPointer.get_part
GetPart(kind, tok) ==
    CASE kind = "obj" -> PartKey(tok)
      [] kind \in {"arr", "str"} ->
            IF tok = "-" THEN PartDash
            ELSE IF IsIndexToken(tok) THEN PartInt(TokenIndex(tok))
            ELSE PartExc
      [] OTHER -> PartExc

\* JsonPointer.walk
Walk(d, ref, tok) ==
    Bind(RefKind(d, ref), LAMBDA kind :
    Bind(GetPart(kind, tok), LAMBDA part :
        CASE ref.t = "exc" -> ExcRef
          [] part.k = "exc" -> ExcRef
          [] part.k = "dash" -> EolRef
          [] part.k = "int" ->
                IF part.i >= RefLen(d, ref) THEN ExcRef
                ELSE IF kind = "str" THEN ChrRef
                ELSE [t |-> "loc", p |-> ref.p \o <<part.s>>]
          [] OTHER ->
                IF (ref.p \o <<tok>>) \in DOMAIN d
                THEN [t |-> "loc", p |-> ref.p \o <<tok>>]
                ELSE ExcRef))

RECURSIVE WalkAll(_, _, _)
WalkAll(d, ref, toks) ==
    IF toks = << >> THEN ref
    ELSE WalkAll(d, Walk(d, ref, Head(toks)), Tail(toks))

\* JsonPointer.to_last: (sub-document, last step)
ToLast(d, parts) ==
    IF parts = << >> THEN [sub |-> RootRef, part |-> PartNone]
    ELSE Bind(WalkAll(d, RootRef, SubSeq(parts, 1, Len(parts) - 1)), LAMBDA sub :
         Bind(IF sub.t = "exc" THEN PartExc
              ELSE GetPart(RefKind(d, sub), parts[Len(parts)]), LAMBDA part :
         [sub |-> IF part.k = "exc" THEN ExcRef ELSE sub, part |-> part]))

(***************************************************************************)
(* jsonpatch operations.  Each returns [ok, exc, doc]: the new document,   *)
(* or the class of the exception the library raises.                       *)
(***************************************************************************)
Done(d) == [ok |-> TRUE, exc |-> "", doc |-> d]
Raise(e) == [ok |-> FALSE, exc |-> e, doc |-> NoDoc]

ChildPath(sub, part) == sub.p \o <<part.s>>

DocSize(d) == Cardinality(DOMAIN d)

\* subobj[part], as evaluated by MoveOperation and CopyOperation
GetItem(d, sub, part) ==
    LET kind == RefKind(d, sub) IN
    CASE kind = "obj" ->
            IF part.k = "key" /\ ChildPath(sub, part) \in DOMAIN d
            THEN Done(Sub(d, ChildPath(sub, part)))
            ELSE Raise("JsonPatchConflict")
      [] kind = "arr" ->
            IF part.k # "int" THEN Raise("TypeError")
            ELSE IF part.i < RefLen(d, sub) THEN Done(Sub(d, ChildPath(sub, part)))
            ELSE Raise("JsonPatchConflict")
      [] kind = "str" ->
            IF part.k # "int" THEN Raise("TypeError")
            ELSE IF part.i < RefLen(d, sub) THEN Done(Scalar(StrJ))
            ELSE Raise("JsonPatchConflict")
      [] OTHER -> Raise("TypeError")

\* AddOperation.apply
AddOperation(d, path, value) ==
    Bind(ToLast(d, path), LAMBDA tl :
    LET sub == tl.sub
        part == tl.part
        kind == RefKind(d, sub)
    IN  CASE sub.t = "exc" -> Raise("JsonPointerException")
          [] kind = "arr" ->
                CASE part.k = "dash" -> Done(ArrInsert(d, sub.p, RefLen(d, sub), value))
                  [] part.k = "none" -> Raise("TypeError")
                  [] OTHER ->
                        IF part.i > RefLen(d, sub) THEN Raise("JsonPatchConflict")
                        ELSE Done(ArrInsert(d, sub.p, part.i, value))
          [] kind = "obj" ->
                IF part.k = "none" THEN Done(value)
                ELSE Done(Graft(d, ChildPath(sub, part), value))
          [] OTHER ->
                IF part.k = "none" THEN Raise("TypeError")
                ELSE Raise("JsonPatchConflict"))

\* faulty variant: the member is looked up but not deleted
RemoveOperation_keeping_member(d, path) ==
    Bind(ToLast(d, path), LAMBDA tl :
    LET sub == tl.sub
        part == tl.part
        kind == RefKind(d, sub)
    IN  CASE sub.t = "exc" -> Raise("JsonPointerException")
          [] kind \in {"arr", "str"} /\ part.k # "int" -> Raise("JsonPointerException")
          [] kind = "obj" ->
                IF part.k = "key" /\ ChildPath(sub, part) \in DOMAIN d
                THEN Done(d)
                ELSE Raise("JsonPatchConflict")
          [] kind = "arr" ->
                IF part.i < RefLen(d, sub) THEN Done(d)
                ELSE Raise("JsonPatchConflict")
          [] OTHER -> Raise("TypeError"))

\* RemoveOperation.apply
RemoveOperation(d, path) ==
    Bind(ToLast(d, path), LAMBDA tl :
    LET sub == tl.sub
        part == tl.part
        kind == RefKind(d, sub)
    IN  CASE sub.t = "exc" -> Raise("JsonPointerException")
          [] kind \in {"arr", "str"} /\ part.k # "int" -> Raise("JsonPointerException")
          [] kind = "obj" ->
                IF part.k = "key" /\ ChildPath(sub, part) \in DOMAIN d
                THEN Done(Prune(d, ChildPath(sub, part)))
                ELSE Raise("JsonPatchConflict")
          [] kind = "arr" ->
                IF part.i < RefLen(d, sub) THEN Done(ArrDelete(d, sub.p, part.i))
                ELSE Raise("JsonPatchConflict")
          [] OTHER -> Raise("TypeError"))

\* ReplaceOperation.apply
ReplaceOperation(d, path, value) ==
    Bind(ToLast(d, path), LAMBDA tl :
    LET sub == tl.sub
        part == tl.part
        kind == RefKind(d, sub)
    IN  CASE sub.t = "exc" -> Raise("JsonPointerException")
          [] part.k = "none" -> Done(value)
          [] part.s = "-" -> Raise("InvalidJsonPatch")
          [] kind = "arr" ->
                IF part.i >= RefLen(d, sub) THEN Raise("JsonPatchConflict")
                ELSE Done(Graft(d, ChildPath(sub, part), value))
          [] kind = "obj" ->
                IF ChildPath(sub, part) \in DOMAIN d
                THEN Done(Graft(d, ChildPath(sub, part), value))
                ELSE Raise("JsonPatchConflict")
          [] OTHER -> Raise("JsonPatchConflict"))

\* MoveOperation.apply
MoveOperation(d, from, path) ==
    Bind(ToLast(d, from), LAMBDA tl :
    Bind(GetItem(d, tl.sub, tl.part), LAMBDA item :
    Bind(RemoveOperation(d, from), LAMBDA removed :
        CASE tl.sub.t = "exc" -> Raise("JsonPointerException")
          [] ~item.ok -> item
          [] path = from -> Done(d)
          [] RefKind(d, tl.sub) = "obj" /\ IsPrefix(from, path) -> Raise("JsonPatchConflict")
          [] ~removed.ok -> removed
          [] OTHER -> AddOperation(removed.doc, path, item.doc))))

\* CopyOperation.apply
CopyOperation(d, from, path) ==
    Bind(ToLast(d, from), LAMBDA tl :
    Bind(GetItem(d, tl.sub, tl.part), LAMBDA item :
        CASE tl.sub.t = "exc" -> Raise("JsonPointerException")
          [] ~item.ok -> item
          [] OTHER -> AddOperation(d, path, item.doc)))

\* one operation of a patch: [op, path, from, value]
PatchOp(name, path, from, value) == [op |-> name, path |-> path, from |-> from, value |-> value]

\* JsonPatch([patch]).apply: the operation the "op" member selects
ApplyOperation(d, patch) ==
    CASE patch.op = "add"     -> AddOperation(d, patch.path, patch.value)
      [] patch.op = "remove"  -> RemoveOperation(d, patch.path)
      [] patch.op = "replace" -> ReplaceOperation(d, patch.path, patch.value)
      [] patch.op = "move"    -> MoveOperation(d, patch.from, patch.path)
      [] patch.op = "copy"    -> CopyOperation(d, patch.from, patch.path)
      [] OTHER                -> Raise("InvalidJsonPatch")

\* the operations of patches[k..] applied in order to the working copy d;
\* "partial" is the working copy as the raising operation found it
RECURSIVE ApplyFrom(_, _, _)
ApplyFrom(d, patches, k) ==
    IF k > Len(patches) THEN [ok |-> TRUE, exc |-> "", doc |-> d, partial |-> d]
    ELSE Bind(ApplyOperation(d, patches[k]), LAMBDA r :
             IF r.ok THEN ApplyFrom(r.doc, patches, k + 1)
             ELSE [ok |-> FALSE, exc |-> r.exc, doc |-> NoDoc, partial |-> d])

\* JsonPatch(patches).apply(document, in_place=True): the caller's object is
\* the working copy (used only as the faulty variant of JsonPatchApply)
JsonPatchApplyInPlace(document, patches) ==
    Bind(ApplyFrom(document, patches, 1), LAMBDA r :
        [ok |-> r.ok, exc |-> r.exc, doc |-> r.doc, caller |-> r.partial])

\* JsonPatch(patches).apply(document): works on a deep copy, so the
\* caller's object ("caller") is what it was, whatever happens
JsonPatchApply(document, patches) ==
    Bind(ApplyFrom(document, patches, 1), LAMBDA r :
        [ok |-> r.ok, exc |-> r.exc, doc |-> r.doc, caller |-> document])

(***************************************************************************)
(* tools/apply_patches.py.  List positions are 0-based as in the code:     *)
(* position i is patches[i + 1].                                           *)
(***************************************************************************)
valid_ops == {"add", "remove", "replace", "move", "copy"}

NoIndex == -1

PatchSuccess(document, count, caller) ==
    [success |-> TRUE, document |-> document, applied_count |-> count,
     error |-> "", failed_at_index |-> NoIndex, caller_document |-> caller]

PatchFailure(error, index, caller) ==
    [success |-> FALSE, document |-> NoDoc, applied_count |-> NoIndex,
     error |-> error, failed_at_index |-> index, caller_document |-> caller]

\* _find_failed_patch_index: replay one operation at a time
RECURSIVE ReplayFrom(_, _, _)
ReplayFrom(current_doc, patches, i) ==
    IF i >= Len(patches) THEN Len(patches) - 1
    ELSE Bind(JsonPatchApply(current_doc, <<patches[i + 1]>>), LAMBDA r :
             IF r.ok THEN ReplayFrom(r.doc, patches, i + 1) ELSE i)

_find_failed_patch_index(document, patches) == ReplayFrom(document, patches, 0)

\* the except clauses of apply_patches, in the order Python tries them
HandlePatchException(exc, document, patches) ==
    CASE exc = "JsonPatchConflict" ->
            [error |-> "Patch conflict", index |-> _find_failed_patch_index(document, patches)]
      [] exc = "InvalidJsonPatch" ->
            [error |-> "Patch error", index |-> _find_failed_patch_index(document, patches)]
      [] exc = "JsonPointerException" ->
            [error |-> "Invalid path", index |-> _find_failed_patch_index(document, patches)]
      [] OTHER ->
            [error |-> "Unexpected error", index |-> 0]

\* the validation loop stops at the first operation it rejects
Rejected(patch) == patch.op \notin valid_ops \/ patch.op = "test"

\* faulty variant: reports the last rejected operation, not the first
LastRejected(patches) ==
    LET bad == {i \in 0..(Len(patches) - 1) : Rejected(patches[i + 1])}
    IN  IF bad = {} THEN NoIndex
        ELSE CHOOSE i \in bad : \A j \in bad : j <= i

FirstRejected(patches) ==
    LET bad == {i \in 0..(Len(patches) - 1) : Rejected(patches[i + 1])}
    IN  IF bad = {} THEN NoIndex
        ELSE CHOOSE i \in bad : \A j \in bad : i <= j

ValidationError(patch) ==
    IF patch.op \notin valid_ops THEN "Invalid operation"
    ELSE "Operation 'test' is not supported"

\* faulty variant: a success returns the document it was given
apply_patches_returning_input(document, patches) ==
    IF patches = << >> THEN PatchSuccess(document, 0, document)
    ELSE IF FirstRejected(patches) # NoIndex
    THEN PatchFailure(ValidationError(patches[FirstRejected(patches) + 1]),
                      FirstRejected(patches), document)
    ELSE Bind(JsonPatchApply(document, patches), LAMBDA r :
         Bind(HandlePatchException(r.exc, r.caller, patches), LAMBDA h :
             IF r.ok THEN PatchSuccess(document, Len(patches), r.caller)
             ELSE PatchFailure(h.error, h.index, r.caller)))

apply_patches(document, patches) ==
    IF patches = << >> THEN PatchSuccess(document, 0, document)
    ELSE IF FirstRejected(patches) # NoIndex
    THEN PatchFailure(ValidationError(patches[FirstRejected(patches) + 1]),
                      FirstRejected(patches), document)
    ELSE Bind(JsonPatchApply(document, patches), LAMBDA r :
         Bind(HandlePatchException(r.exc, r.caller, patches), LAMBDA h :
             IF r.ok THEN PatchSuccess(r.doc, Len(patches), r.caller)
             ELSE PatchFailure(h.error, h.index, r.caller)))

(***************************************************************************)
(* tools/inspect_keys.py and tools/update_guidance.py.                     *)
(***************************************************************************)
Get(input, key, default) == IF key \in DOMAIN input THEN input[key] ELSE default

ChildTokens(d, p) ==
    {q[Len(p) + 1] : q \in {q \in DOMAIN d : Len(q) = Len(p) + 1 /\ IsPrefix(p, q)}}

inspect_keys(document, path) ==
    Bind(WalkAll(document, RootRef, path), LAMBDA ref :
    LET kind == RefKind(document, ref)
    IN  CASE ref.t = "exc" -> [found |-> FALSE, path |-> path, error |-> "JsonPointerException"]
          [] kind = "obj" -> [found |-> TRUE, path |-> path, type |-> "object",
                              keys |-> ChildTokens(document, ref.p),
                              count |-> ChildCount(document, ref.p)]
          [] kind = "arr" -> [found |-> TRUE, path |-> path, type |-> "array",
                              length |-> ChildCount(document, ref.p)]
          [] ref.t = "loc" -> [found |-> TRUE, path |-> path, type |-> kind,
                               value |-> document[ref.p]]
          [] OTHER -> [found |-> TRUE, path |-> path, type |-> kind, value |-> ref.t])

(***************************************************************************)
(* tools/read_value.py.  The limits on strings (160 characters) and on     *)
(* the keys of an object (50) are the defaults, which no value of the      *)
(* model reaches; max_depth and max_array_items are arguments.             *)
(***************************************************************************)
KeysPlaceholder(n) == "s:{...} (" \o ToString(n) \o " keys)"
ItemsPlaceholder(n) == "s:[...] (" \o ToString(n) \o " items)"
MoreItems(n) == "s:... (" \o ToString(n) \o " more items)"

\* the container with the given label whose member at token t is members[t]
Assemble(label, members) ==
    [q \in {<< >>} \cup
            UNION {{<<t>> \o r : r \in DOMAIN members[t]} : t \in DOMAIN members} |->
        IF q = << >> THEN label ELSE members[Head(q)][Tail(q)]]

\* faulty variant: the depth test is ">" where the code has ">="
RECURSIVE _truncate_value_one_deeper(_, _, _, _)
_truncate_value_one_deeper(value, max_depth, max_array_items, current_depth) ==
    LET kind == Kind(value[<< >>])
        size == ChildCount(value, << >>)
        deeper(t) == _truncate_value_one_deeper(Sub(value, <<t>>), max_depth, max_array_items,
                                                current_depth + 1)
    IN  IF current_depth > max_depth
        THEN CASE kind = "obj" -> Scalar(KeysPlaceholder(size))
               [] kind = "arr" -> Scalar(ItemsPlaceholder(size))
               [] OTHER -> value
        ELSE CASE kind = "obj" ->
                    Assemble("object", [t \in ChildTokens(value, << >>) |-> deeper(t)])
               [] kind = "arr" ->
                    IF size > max_array_items
                    THEN Assemble("array",
                            [t \in {IndexToken(i) : i \in 0..max_array_items} |->
                                IF t = IndexToken(max_array_items)
                                THEN Scalar(MoreItems(size - max_array_items))
                                ELSE deeper(t)])
                    ELSE Assemble("array", [t \in ChildTokens(value, << >>) |-> deeper(t)])
               [] OTHER -> value

RECURSIVE _truncate_value(_, _, _, _)
_truncate_value(value, max_depth, max_array_items, current_depth) ==
    LET kind == Kind(value[<< >>])
        size == ChildCount(value, << >>)
        deeper(t) == _truncate_value(Sub(value, <<t>>), max_depth, max_array_items,
                                     current_depth + 1)
    IN  IF current_depth >= max_depth
        THEN CASE kind = "obj" -> Scalar(KeysPlaceholder(size))
               [] kind = "arr" -> Scalar(ItemsPlaceholder(size))
               [] OTHER -> value
        ELSE CASE kind = "obj" ->
                    Assemble("object", [t \in ChildTokens(value, << >>) |-> deeper(t)])
               [] kind = "arr" ->
                    IF size > max_array_items
                    THEN Assemble("array",
                            [t \in {IndexToken(i) : i \in 0..max_array_items} |->
                                IF t = IndexToken(max_array_items)
                                THEN Scalar(MoreItems(size - max_array_items))
                                ELSE deeper(t)])
                    ELSE Assemble("array", [t \in ChildTokens(value, << >>) |-> deeper(t)])
               [] OTHER -> value

TypeName(kind) ==
    CASE kind = "obj" -> "dict"
      [] kind = "arr" -> "list"
      [] kind = "str" -> "str"
      [] kind = "num" -> "int"
      [] OTHER        -> "EndOfList"

read_value(document, path, max_depth, max_array_items) ==
    Bind(IF path = << >> \/ path = <<"">> THEN RootRef ELSE WalkAll(document, RootRef, path),
         LAMBDA ref :
    CASE ref.t = "exc" -> [found |-> FALSE, error |-> "JsonPointerException", path |-> path]
      [] ref.t = "loc" -> [found |-> TRUE, path |-> path,
                           value |-> _truncate_value(Sub(document, ref.p), max_depth,
                                                     max_array_items, 0),
                           type |-> TypeName(RefKind(document, ref))]
      [] ref.t = "chr" -> [found |-> TRUE, path |-> path, value |-> Scalar(StrJ), type |-> "str"]
      [] OTHER         -> [found |-> TRUE, path |-> path, value |-> EolRef, type |-> "EndOfList"])

(***************************************************************************)
(* tools/search_pointer.py, called with the default limits (20 matches,    *)
(* 120 characters), which no document of the model reaches.                *)
(***************************************************************************)
\* str(value) of a scalar: its text, a sequence of characters
str(label) == IF label = StrJ THEN <<"J">> ELSE <<"1">>

\* s.lower()
lower(s) ==
    [i \in 1..Len(s) |->
        CASE s[i] = "A" -> "a"
          [] s[i] = "C" -> "c"
          [] s[i] = "J" -> "j"
          [] s[i] = "X" -> "x"
          [] OTHER -> s[i]]

\* word in s
str_in(word, s) ==
    \E i \in 0..(Len(s) - Len(word)) : SubSeq(s, i + 1, i + Len(word)) = word

Whitespace == {" ", "\t"}

\* s.split(): the runs of characters other than whitespace, in order
RECURSIVE split_words(_, _)
split_words(s, word) ==
    IF s = << >> THEN (IF word = << >> THEN << >> ELSE <<word>>)
    ELSE IF Head(s) \in Whitespace
    THEN (IF word = << >> THEN << >> ELSE <<word>>) \o split_words(Tail(s), << >>)
    ELSE split_words(Tail(s), Append(word, Head(s)))

\* faulty variant: the texts are compared as they are, without lower()
_matches_case_sensitive(text_, query, fuzzy) ==
    IF query = << >> THEN TRUE
    ELSE IF fuzzy
    THEN Bind(split_words(query, << >>), LAMBDA query_words :
            \A i \in 1..Len(query_words) : str_in(query_words[i], text_))
    ELSE str_in(query, text_)

_matches(text_, query, fuzzy) ==
    IF query = << >> THEN TRUE
    ELSE IF fuzzy
    THEN Bind(split_words(lower(query), << >>), LAMBDA query_words :
            \A i \in 1..Len(query_words) : str_in(query_words[i], lower(text_)))
    ELSE str_in(lower(query), lower(text_))

\* search_pointer(document, query) with type "value": the scalar members of
\* the containers of the document whose text contains the query (the
\* matches are kept as a set: the order of the keys of an object is not
\* part of the document model)
search_pointer(document, query) ==
    LET hits == {q \in DOMAIN document :
                    /\ q # << >>
                    /\ Kind(document[q]) \in {"str", "num"}
                    /\ _matches(str(document[q]), query, FALSE)}
    IN  [query |-> query, type |-> "value", fuzzy |-> FALSE,
         matches |-> {[pointer |-> q, matched_value |-> document[q]] : q \in hits},
         count |-> Cardinality(hits), truncated |-> FALSE]

(***************************************************************************)
(* The run state (AgentState) and the graph position.                      *)
(***************************************************************************)
VARIABLES
    pc,                  \* the graph node about to run, "__end__", or "raised"
    text,
    chunks,
    current_chunk_idx,
    current_chunk,
    json_document,
    guidance,
    messages,
    actions_results,
    is_chunk_finalized,
    iteration_count,
    max_iterations,
    error,
    llm_calls,           \* history: the chunk index of every llm.invoke so far
    patch_call,          \* the last direct call of apply_patches (PatchSpec)
    finalize_seen,       \* history: the input of the last finalize-only turn executed
    patched_document,    \* history: the patch lists that applied in full, applied in order
    llm_input,           \* history: the messages handed to the last llm.invoke
    tool_call,           \* the last direct call of a tool function (ToolSpec)
    final_state          \* the dict run_live_progress builds from the streamed updates

vars == <<pc, text, chunks, current_chunk_idx, current_chunk, json_document,
          guidance, messages, actions_results, is_chunk_finalized,
          iteration_count, max_iterations, error, llm_calls, patch_call,
          finalize_seen, patched_document, llm_input, tool_call, final_state>>

None == "None"
NoCall == [made |-> FALSE, patches |-> << >>]
NoToolCall == [tool |-> "none", made |-> FALSE]
NoFinalize == [seen |-> FALSE]
EmptyGuidance == << >>

\* faulty variant of update_guidance: an omitted field keeps the value it
\* has in the guidance of the run
update_guidance_merging(input) ==
    [finalized |-> TRUE,
     guidance |-> [f \in {"last_processed_path", "current_context", "pending_action",
                          "extracted_entities_count"} |->
                      IF f \in DOMAIN input THEN input[f]
                      ELSE IF guidance # EmptyGuidance THEN guidance[f]
                      ELSE IF f = "extracted_entities_count" THEN 0 ELSE ""]]

\* tools/update_guidance.py
update_guidance(input) ==
    [finalized |-> TRUE,
     guidance |-> [last_processed_path |-> Get(input, "last_processed_path", ""),
                   current_context |-> Get(input, "current_context", ""),
                   pending_action |-> Get(input, "pending_action", ""),
                   extracted_entities_count |-> Get(input, "extracted_entities_count", 0)]]


\* json.dumps(value): the text of a value, which determines the value
json_dumps(value) == [json |-> value]
JsonNull == [literal |-> "null"]
JsonEmptyObject == [literal |-> "{}"]

\* a document Python treats as false: {} or []
IsEmptyContainer(d) == DOMAIN d = {<< >>} /\ Kind(d[<< >>]) \in {"obj", "arr"}

\* faulty variant: the prompt is built without the guidance of the run
build_system_prompt_dropping_guidance(previous_guidance, json_skeleton) ==
    [guidance_str |-> JsonNull,
     skeleton_str |-> IF IsEmptyContainer(json_skeleton) THEN JsonEmptyObject
                      ELSE json_dumps(json_skeleton)]

\* agent/prompts.py: the parts of the prompt that depend on the run state
\* (target_schema is not modelled: the run never changes it)
build_system_prompt(previous_guidance, json_skeleton) ==
    [guidance_str |-> IF previous_guidance = EmptyGuidance THEN JsonNull
                      ELSE json_dumps(previous_guidance),
     skeleton_str |-> IF IsEmptyContainer(json_skeleton) THEN JsonEmptyObject
                      ELSE json_dumps(json_skeleton)]

build_user_message(text_chunk, chunk_index, total_chunks) ==
    [text_chunk |-> text_chunk, index |-> chunk_index + 1, total |-> total_chunks]

\* json.dumps accepts the results of a turn: every value in them is a JSON
\* value (the EndOfList object read_value returns for the "-" position of
\* an array is not, and json.dumps raises TypeError on it)
JsonSerializable(results) ==
    \A i \in 1..Len(results) :
        ~(/\ results[i].action = "read_value"
          /\ "input" \in DOMAIN results[i]
          /\ results[i].result.found
          /\ results[i].result.type = "EndOfList")

build_observation_message(results) == [observations |-> json_dumps(results)]

SystemMessage(content) == [type |-> "system", content |-> content]
HumanMessage(content) == [type |-> "human", content |-> content]
AIMessage(content) == [type |-> "ai", content |-> content]

\* the content of a model reply: text that json.loads rejects, or a JSON object
Unparsable == [parses |-> FALSE, data |-> << >>]
Turn(actions) == [parses |-> TRUE, data |-> [think |-> "", actions |-> actions]]
NoActionsKey == [parses |-> TRUE, data |-> [think |-> ""]]

Action(name, input) == [action |-> name, input |-> input]

(***************************************************************************)
(* agent/nodes.py: the tool dispatcher.                                    *)
(***************************************************************************)
\* the dictionary apply_patches returns (caller_document is its effect on
\* the caller's object, not a member of the dictionary)
Returned(r) == [f \in (DOMAIN r) \ {"caller_document"} |-> r[f]]

ActionResult(item, result) ==
    [action |-> item.action, input |-> item.input, result |-> result]

FinalizeViolation == [error |-> "update_guidance must be the ONLY action when finalizing"]
UnknownAction(name) == [error |-> "Unknown action", name |-> name]

\* faulty variants of the loop: with fault "stop" an update_guidance among
\* other actions ends the loop; with fault "stale" the query actions read
\* the document the turn started with, not the working document; with
\* fault "reset" a failed apply_patches, whose result has no document,
\* leaves {} as the working document; with fault "abort" an action of
\* unknown name ends the loop
RECURSIVE FaultyDispatch(_, _, _, _, _, _)
FaultyDispatch(actions, k, new_document, results, fault, document) ==
    IF k > Len(actions) THEN [json_document |-> new_document, actions_results |-> results]
    ELSE LET item == actions[k]
             seen == IF fault = "stale" THEN document ELSE new_document
             more(d, result) ==
                FaultyDispatch(actions, k + 1, d, Append(results, ActionResult(item, result)),
                               fault, document)
         IN  CASE item.action = "inspect_keys" ->
                    more(new_document, inspect_keys(seen, Get(item.input, "path", << >>)))
               [] item.action = "read_value" ->
                    more(new_document, read_value(seen, Get(item.input, "path", << >>),
                                                  Get(item.input, "max_depth", 6),
                                                  Get(item.input, "max_array_items", 50)))
               [] item.action = "search_pointer" ->
                    more(new_document, search_pointer(seen, Get(item.input, "query", << >>)))
               [] item.action = "apply_patches" ->
                    Bind(apply_patches(new_document, Get(item.input, "patches", << >>)),
                         LAMBDA patched :
                    more(IF patched.success THEN patched.document
                         ELSE IF fault = "reset" THEN EmptyObj
                         ELSE patched.caller_document,
                         Returned(patched)))
               [] item.action = "update_guidance" ->
                    IF fault = "stop"
                    THEN [json_document |-> new_document,
                          actions_results |-> Append(results, ActionResult(item, FinalizeViolation))]
                    ELSE more(new_document, FinalizeViolation)
               [] OTHER ->
                    IF fault = "abort"
                    THEN [json_document |-> new_document,
                          actions_results |-> Append(results,
                                ActionResult(item, UnknownAction(item.action)))]
                    ELSE more(new_document, UnknownAction(item.action))

DispatchFrom_stopping_at_finalize(actions, k, new_document, results) ==
    FaultyDispatch(actions, k, new_document, results, "stop", new_document)

DispatchFrom_reading_stale(actions, k, new_document, results) ==
    FaultyDispatch(actions, k, new_document, results, "stale", new_document)

DispatchFrom_resetting_on_failure(actions, k, new_document, results) ==
    FaultyDispatch(actions, k, new_document, results, "reset", new_document)

DispatchFrom_aborting_on_unknown(actions, k, new_document, results) ==
    FaultyDispatch(actions, k, new_document, results, "abort", new_document)

\* the for-loop of execute_tools_node over actions[k..], threading
\* new_document and results
RECURSIVE DispatchFrom(_, _, _, _)
DispatchFrom(actions, k, new_document, results) ==
    IF k > Len(actions) THEN [json_document |-> new_document, actions_results |-> results]
    ELSE LET item == actions[k]
             action_name == item.action
             action_input == item.input
         IN  CASE action_name = "inspect_keys" ->
                    DispatchFrom(actions, k + 1, new_document,
                        Append(results, ActionResult(item,
                            inspect_keys(new_document, Get(action_input, "path", << >>)))))
               [] action_name = "read_value" ->
                    DispatchFrom(actions, k + 1, new_document,
                        Append(results, ActionResult(item,
                            read_value(new_document, Get(action_input, "path", << >>),
                                       Get(action_input, "max_depth", 6),
                                       Get(action_input, "max_array_items", 50)))))
               [] action_name = "search_pointer" ->
                    DispatchFrom(actions, k + 1, new_document,
                        Append(results, ActionResult(item,
                            search_pointer(new_document, Get(action_input, "query", << >>)))))
               [] action_name = "apply_patches" ->
                    Bind(apply_patches(new_document, Get(action_input, "patches", << >>)),
                         LAMBDA patched :
                    DispatchFrom(actions, k + 1,
                        IF patched.success THEN patched.document ELSE patched.caller_document,
                        Append(results, ActionResult(item, Returned(patched)))))
               [] action_name = "update_guidance" ->
                    DispatchFrom(actions, k + 1, new_document,
                        Append(results, ActionResult(item, FinalizeViolation)))
               [] OTHER ->
                    DispatchFrom(actions, k + 1, new_document,
                        Append(results, ActionResult(item, UnknownAction(action_name))))

\* the last AIMessage of messages, as the reversed() scan finds it
AIPositions(msgs) == {i \in 1..Len(msgs) : msgs[i].type = "ai"}
LastAIMessage(msgs) == msgs[CHOOSE i \in AIPositions(msgs) : \A j \in AIPositions(msgs) : j <= i]

\* faulty variant: a turn whose first action is update_guidance finalizes
FirstIsFinalize(actions) == actions[1].action = "update_guidance"

\* faulty variant: any turn that contains update_guidance finalizes
ContainsFinalize(actions) ==
    \E i \in 1..Len(actions) : actions[i].action = "update_guidance"

IsFinalizeOnly(actions) == Len(actions) = 1 /\ actions[1].action = "update_guidance"

(***************************************************************************)
(* agent/nodes.py: the routing functions of the conditional edges.         *)
(***************************************************************************)
\* faulty variant: the error check is missing
has_more_chunks_ignoring_error(chunks_, idx, err) ==
    IF idx < Len(chunks_) THEN "call_llm" ELSE "__end__"

\* faulty variant: <= where the code has <
has_more_chunks_off_by_one(chunks_, idx, err) ==
    IF err # None THEN "__end__"
    ELSE IF idx <= Len(chunks_) THEN "call_llm"
    ELSE "__end__"

has_more_chunks(chunks_, idx, err) ==
    IF err # None THEN "__end__"
    ELSE IF idx < Len(chunks_) THEN "call_llm"
    ELSE "__end__"

\* faulty variant: an error does not end the chunk
is_chunk_done_ignoring_error(finalized, count, cap, err) ==
    IF finalized THEN "finalize_chunk"
    ELSE IF count >= cap THEN "finalize_chunk"
    ELSE "call_llm"

\* faulty variant: > where the code has >=
is_chunk_done_one_over_cap(finalized, count, cap, err) ==
    IF finalized THEN "finalize_chunk"
    ELSE IF count > cap THEN "finalize_chunk"
    ELSE IF err # None THEN "finalize_chunk"
    ELSE "call_llm"

is_chunk_done(finalized, count, cap, err) ==
    IF finalized THEN "finalize_chunk"
    ELSE IF count >= cap THEN "finalize_chunk"
    ELSE IF err # None THEN "finalize_chunk"
    ELSE "call_llm"

(***************************************************************************)
(* The replies the external model may give (the inputs of the run).        *)
(***************************************************************************)
Add(path, value) == PatchOp("add", path, << >>, value)
Remove(path) == PatchOp("remove", path, << >>, EmptyObj)
Replace(path, value) == PatchOp("replace", path, << >>, value)
Move(from, path) == PatchOp("move", path, from, EmptyObj)
Copy(from, path) == PatchOp("copy", path, from, EmptyObj)
Test(path, value) == PatchOp("test", path, << >>, value)

Finalize(input) == Action("update_guidance", input)
Patches(patches) == Action("apply_patches", [patches |-> patches])
Inspect(path) == Action("inspect_keys", [path |-> path])
ReadValue(path) == Action("read_value", [path |-> path])
SearchPointer(query) == Action("search_pointer", [query |-> query])

GuidanceInputs ==
    {[last_processed_path |-> "/a", current_context |-> "list of clients",
      pending_action |-> "expect_total", extracted_entities_count |-> 1],
     [pending_action |-> "expect_total"]}

Replies ==
    {Unparsable, NoActionsKey, Turn(<< >>)}
    \cup {Turn(<<Finalize(g)>>) : g \in GuidanceInputs}
    \cup {Turn(<<Finalize([pending_action |-> "expect_total"]), Patches(<<Add(<<"a">>, EmptyArr)>>)>>),
          Turn(<<Patches(<<Add(<<"a", "-">>, Scalar(NumOne))>>), Finalize(<< >>)>>),
          Turn(<<Finalize(<< >>), Finalize(<< >>)>>),
          Turn(<<Patches(<<Add(<<"a">>, EmptyArr)>>)>>),
          Turn(<<Patches(<<Add(<<"b">>, Scalar(StrJ)), Remove(<<"zz">>)>>)>>),
          Turn(<<Patches(<<Test(<<"x">>, Scalar(NumOne))>>)>>),
          Turn(<<Patches(<<Add(<<"b">>, Scalar(NumOne)), Test(<<"b">>, Scalar(NumOne))>>)>>),
          Turn(<<Patches(<<Add(<< >>, EmptyArr), Add(<< >>, EmptyObj)>>)>>),
          Turn(<<Inspect(<< >>), ReadValue(<<"a">>), SearchPointer(<<"j">>)>>),
          Turn(<<Action("frobnicate", << >>), Patches(<<Add(<<"a", "-">>, Scalar(NumOne))>>),
                 ReadValue(<<"a">>)>>),
          Turn(<<Patches(<<Remove(<<"a">>), Add(<<"b">>, EmptyObj)>>), Inspect(<<"b">>),
                 Patches(<<Remove(<<"zz">>)>>),
                 Patches(<<Replace(<<"b">>, Scalar(NumOne))>>), SearchPointer(<< >>)>>),
          Turn(<<ReadValue(<<"a", "-">>)>>)}

\* the document a reply leaves behind when execute_tools_node runs it on d
DocumentAfter(content, d) ==
    IF ~content.parses \/ Get(content.data, "actions", << >>) = << >>
       \/ IsFinalizeOnly(content.data.actions)
    THEN d
    ELSE DispatchFrom(content.data.actions, 1, d, << >>).json_document

(***************************************************************************)
(* History of the patches of a run, kept apart from the dispatcher: the    *)
(* document obtained from d by the apply_patches actions of actions[k..]   *)
(* whose operations all apply, one after the other.                        *)
(***************************************************************************)
\* the operations of a list applied one after the other, each to the
\* document the previous one produced
RECURSIVE AllApplied(_, _)
AllApplied(d, patches) ==
    IF patches = << >> THEN Done(d)
    ELSE Bind(ApplyOperation(d, Head(patches)), LAMBDA r :
             IF r.ok THEN AllApplied(r.doc, Tail(patches)) ELSE r)

RECURSIVE PatchedBy(_, _, _)
PatchedBy(actions, k, d) ==
    IF k > Len(actions) THEN d
    ELSE IF actions[k].action # "apply_patches" THEN PatchedBy(actions, k + 1, d)
    ELSE Bind(AllApplied(d, Get(actions[k].input, "patches", << >>)), LAMBDA r :
             PatchedBy(actions, k + 1, IF r.ok THEN r.doc ELSE d))

(***************************************************************************)
(* ui/rich_display.py: what run_live_progress does to final_state with the *)
(* update a node streams (of the update, the members it looks for:         *)
(* json_document, chunks, guidance, error).  final_state = None and        *)
(* final_state = {} are both << >>: the function returns final_state or {}.*)
(***************************************************************************)
\* faulty variant: the first update of a member is kept
run_live_progress_keeping_first(final, state_update) ==
    [k \in DOMAIN final \cup DOMAIN state_update |->
        IF k \in DOMAIN final THEN final[k] ELSE state_update[k]]

run_live_progress(final, state_update) ==
    [k \in DOMAIN final \cup DOMAIN state_update |->
        IF k \in DOMAIN state_update THEN state_update[k] ELSE final[k]]

\* main.py: the result _extract_with_progress builds from what
\* run_live_progress returned
_extract_with_progress(final) ==
    [json_document |-> Get(final, "json_document", EmptyObj),
     metadata |-> [total_chunks |-> Len(Get(final, "chunks", << >>)),
                   final_guidance |-> Get(final, "guidance", EmptyGuidance)],
     error |-> Get(final, "error", None)]

\* agent/graph.py: the result extract builds from what app.invoke returned
extract(final) ==
    [json_document |-> Get(final, "json_document", EmptyObj),
     metadata |-> [total_chunks |-> Len(Get(final, "chunks", << >>)),
                   final_guidance |-> Get(final, "guidance", EmptyGuidance)],
     error |-> Get(final, "error", None)]

(***************************************************************************)
(* The nodes of the graph (agent/graph.py), each with the edge after it.   *)
(***************************************************************************)
Init ==
    /\ pc = "chunk_text"
    /\ text \in {"", "some text"}
    /\ max_iterations \in 0..MaxIterCap
    /\ chunks = << >>
    /\ current_chunk_idx = 0
    /\ current_chunk = ""
    /\ json_document = EmptyObj
    /\ guidance = EmptyGuidance
    /\ messages = << >>
    /\ actions_results = << >>
    /\ is_chunk_finalized = FALSE
    /\ iteration_count = 0
    /\ error = None
    /\ llm_calls = << >>
    /\ patch_call = NoCall
    /\ finalize_seen = NoFinalize
    /\ patched_document = EmptyObj
    /\ llm_input = << >>
    /\ tool_call = NoToolCall
    /\ final_state = << >>

\* chunk_with_fallback: an ordered, non-empty sequence of text segments
ChunkWithFallback == {[i \in 1..n |-> "chunk " \o ToString(i)] : n \in 1..MaxChunks}

\* faulty variant: the empty text is chunked like any other
chunk_text_node_without_check ==
    /\ pc = "chunk_text"
    /\ chunks' \in ChunkWithFallback
    /\ current_chunk_idx' = 0
    /\ json_document' = EmptyObj
    /\ guidance' = EmptyGuidance
    /\ is_chunk_finalized' = FALSE
    /\ iteration_count' = 0
    /\ max_iterations' = max_iterations
    /\ final_state' = run_live_progress(final_state,
                            [chunks |-> chunks', json_document |-> json_document',
                             guidance |-> guidance'])
    /\ pc' = "prepare_chunk"
    /\ UNCHANGED <<text, current_chunk, messages, actions_results, error, llm_calls,
                   patch_call, finalize_seen, patched_document,
                   llm_input, tool_call>>

chunk_text_node ==
    /\ pc = "chunk_text"
    /\ IF text = ""
       THEN /\ chunks' = << >>
            /\ current_chunk_idx' = 0
            /\ json_document' = EmptyObj
            /\ error' = "No text provided for processing."
            /\ final_state' = run_live_progress(final_state,
                                    [chunks |-> chunks', json_document |-> json_document',
                                     error |-> error'])
            /\ UNCHANGED <<guidance, is_chunk_finalized, iteration_count, max_iterations>>
       ELSE /\ chunks' \in ChunkWithFallback
            /\ current_chunk_idx' = 0
            /\ json_document' = EmptyObj
            /\ guidance' = EmptyGuidance
            /\ is_chunk_finalized' = FALSE
            /\ iteration_count' = 0
            /\ max_iterations' = max_iterations
            /\ final_state' = run_live_progress(final_state,
                                    [chunks |-> chunks', json_document |-> json_document',
                                     guidance |-> guidance'])
            /\ UNCHANGED error
    /\ pc' = "prepare_chunk"
    /\ UNCHANGED <<text, current_chunk, messages, actions_results, llm_calls, patch_call,
                   finalize_seen, patched_document,
                   llm_input, tool_call>>

\* the messages channel of AgentState: a new chunk's prompt replaces the
\* history, a model reply is appended to it
StartHistory(msgs) == msgs
AppendHistory(history, msg) == Append(history, msg)

\* faulty variant: the prompt of a new chunk is added to the history of the
\* chunks before it
prepare_chunk_node_keeping_history ==
    /\ pc = "prepare_chunk"
    /\ IF current_chunk_idx >= Len(chunks)
       THEN /\ current_chunk' = ""
            /\ UNCHANGED <<messages, actions_results, is_chunk_finalized, iteration_count>>
       ELSE /\ current_chunk' = chunks[current_chunk_idx + 1]
            /\ messages' = messages \o StartHistory(
                    <<SystemMessage(build_system_prompt(guidance, json_document)),
                      HumanMessage(build_user_message(chunks[current_chunk_idx + 1],
                                                      current_chunk_idx, Len(chunks)))>>)
            /\ actions_results' = << >>
            /\ is_chunk_finalized' = FALSE
            /\ iteration_count' = 0
    /\ pc' = has_more_chunks(chunks, current_chunk_idx, error)
    /\ UNCHANGED <<text, chunks, current_chunk_idx, json_document, guidance,
                   max_iterations, error, llm_calls, patch_call,
                   finalize_seen, patched_document,
                   llm_input, tool_call, final_state>>

\* faulty variant: a new chunk starts with the count of the chunk before it
prepare_chunk_node_keeping_count ==
    /\ pc = "prepare_chunk"
    /\ IF current_chunk_idx >= Len(chunks)
       THEN /\ current_chunk' = ""
            /\ UNCHANGED <<messages, actions_results, is_chunk_finalized>>
       ELSE /\ current_chunk' = chunks[current_chunk_idx + 1]
            /\ messages' = StartHistory(
                    <<SystemMessage(build_system_prompt(guidance, json_document)),
                      HumanMessage(build_user_message(chunks[current_chunk_idx + 1],
                                                      current_chunk_idx, Len(chunks)))>>)
            /\ actions_results' = << >>
            /\ is_chunk_finalized' = FALSE
    /\ pc' = has_more_chunks(chunks, current_chunk_idx, error)
    /\ UNCHANGED <<text, chunks, current_chunk_idx, json_document, guidance,
                   iteration_count, max_iterations, error, llm_calls, patch_call,
                   finalize_seen, patched_document,
                   llm_input, tool_call, final_state>>

prepare_chunk_node ==
    /\ pc = "prepare_chunk"
    /\ IF current_chunk_idx >= Len(chunks)
       THEN /\ current_chunk' = ""
            /\ UNCHANGED <<messages, actions_results, is_chunk_finalized, iteration_count>>
       ELSE /\ current_chunk' = chunks[current_chunk_idx + 1]
            /\ messages' = StartHistory(
                    <<SystemMessage(build_system_prompt(guidance, json_document)),
                      HumanMessage(build_user_message(chunks[current_chunk_idx + 1],
                                                      current_chunk_idx, Len(chunks)))>>)
            /\ actions_results' = << >>
            /\ is_chunk_finalized' = FALSE
            /\ iteration_count' = 0
    /\ pc' = has_more_chunks(chunks, current_chunk_idx, error)
    /\ UNCHANGED <<text, chunks, current_chunk_idx, json_document, guidance,
                   max_iterations, error, llm_calls, patch_call,
                   finalize_seen, patched_document,
                   llm_input, tool_call, final_state>>

\* faulty variant: the observation is added to the history
call_llm_node_keeping_observation ==
    /\ pc = "call_llm"
    /\ IF actions_results # << >> /\ ~JsonSerializable(actions_results)
       THEN /\ pc' = "raised"
            /\ UNCHANGED <<messages, iteration_count, llm_calls, llm_input>>
       ELSE /\ llm_input' = IF actions_results # << >>
                            THEN Append(messages,
                                    HumanMessage(build_observation_message(actions_results)))
                            ELSE messages
            /\ \E content \in Replies :
                  /\ DocSize(DocumentAfter(content, json_document)) <= MaxDocNodes
                  /\ messages' = AppendHistory(llm_input', AIMessage(content))
            /\ iteration_count' = iteration_count + 1
            /\ llm_calls' = Append(llm_calls, current_chunk_idx)
            /\ pc' = "execute_tools"
    /\ UNCHANGED <<text, chunks, current_chunk_idx, current_chunk, json_document, guidance,
                   actions_results, is_chunk_finalized, max_iterations, error, patch_call,
                   finalize_seen, patched_document, tool_call, final_state>>

call_llm_node ==
    /\ pc = "call_llm"
    /\ IF actions_results # << >> /\ ~JsonSerializable(actions_results)
       THEN \* build_observation_message raises: the run ends with the exception
            /\ pc' = "raised"
            /\ UNCHANGED <<messages, iteration_count, llm_calls, llm_input>>
       ELSE /\ \E content \in Replies :
                  /\ DocSize(DocumentAfter(content, json_document)) <= MaxDocNodes
                  /\ messages' = AppendHistory(messages, AIMessage(content))
            /\ iteration_count' = iteration_count + 1
            /\ llm_calls' = Append(llm_calls, current_chunk_idx)
            /\ llm_input' = IF actions_results # << >>
                            THEN Append(messages,
                                    HumanMessage(build_observation_message(actions_results)))
                            ELSE messages
            /\ pc' = "execute_tools"
    /\ UNCHANGED <<text, chunks, current_chunk_idx, current_chunk, json_document, guidance,
                   actions_results, is_chunk_finalized, max_iterations, error, patch_call,
                   finalize_seen, patched_document, tool_call, final_state>>

execute_tools_node ==
    /\ pc = "execute_tools"
    /\ LET last_message == LastAIMessage(messages)
           response_data == last_message.content.data
           actions == Get(response_data, "actions", << >>)
           guidance_result == update_guidance(Get(actions[1], "input", << >>))
           ran == DispatchFrom(actions, 1, json_document, << >>)
       IN  CASE AIPositions(messages) = {} ->
                    /\ error' = "No LLM response found."
                    /\ final_state' = run_live_progress(final_state, [error |-> error'])
                    /\ UNCHANGED <<json_document, guidance, actions_results, is_chunk_finalized,
                                   finalize_seen, patched_document>>
             [] ~last_message.content.parses ->
                    /\ error' = "Error parsing LLM response"
                    /\ final_state' = run_live_progress(final_state, [error |-> error'])
                    /\ UNCHANGED <<json_document, guidance, actions_results, is_chunk_finalized,
                                   finalize_seen, patched_document>>
             [] actions = << >> ->
                    /\ error' = "No actions specified by the LLM."
                    /\ final_state' = run_live_progress(final_state, [error |-> error'])
                    /\ UNCHANGED <<json_document, guidance, actions_results, is_chunk_finalized,
                                   finalize_seen, patched_document>>
             [] IsFinalizeOnly(actions) ->
                    /\ guidance' = guidance_result.guidance
                    /\ is_chunk_finalized' = TRUE
                    /\ actions_results' = <<[action |-> "update_guidance", result |-> guidance_result]>>
                    /\ finalize_seen' = [seen |-> TRUE, input |-> Get(actions[1], "input", << >>)]
                    /\ final_state' = run_live_progress(final_state, [guidance |-> guidance'])
                    /\ UNCHANGED <<json_document, error, patched_document>>
             [] OTHER ->
                    /\ json_document' = ran.json_document
                    /\ actions_results' = ran.actions_results
                    /\ patched_document' = PatchedBy(actions, 1, patched_document)
                    /\ final_state' = run_live_progress(final_state,
                                            [json_document |-> json_document'])
                    /\ UNCHANGED <<guidance, is_chunk_finalized, error, finalize_seen>>
    /\ pc' = is_chunk_done(is_chunk_finalized', iteration_count, max_iterations, error')
    /\ UNCHANGED <<text, chunks, current_chunk_idx, current_chunk, messages,
                   iteration_count, max_iterations, llm_calls, patch_call,
                   llm_input, tool_call>>

\* faulty variant: the document of a run that failed is discarded
finalize_chunk_node_discarding_on_error ==
    /\ pc = "finalize_chunk"
    /\ current_chunk_idx' = current_chunk_idx + 1
    /\ is_chunk_finalized' = FALSE
    /\ actions_results' = << >>
    /\ json_document' = IF error # None THEN EmptyObj ELSE json_document
    /\ pc' = "prepare_chunk"
    /\ UNCHANGED <<text, chunks, current_chunk, guidance, messages,
                   iteration_count, max_iterations, error, llm_calls, patch_call,
                   finalize_seen, patched_document,
                   llm_input, tool_call, final_state>>

\* faulty variant: the index advances by two
finalize_chunk_node_skipping ==
    /\ pc = "finalize_chunk"
    /\ current_chunk_idx' = current_chunk_idx + 2
    /\ is_chunk_finalized' = FALSE
    /\ actions_results' = << >>
    /\ pc' = "prepare_chunk"
    /\ UNCHANGED <<text, chunks, current_chunk, json_document, guidance, messages,
                   iteration_count, max_iterations, error, llm_calls, patch_call,
                   finalize_seen, patched_document,
                   llm_input, tool_call, final_state>>

\* faulty variant: a chunk left without a finalize-only turn clears the
\* guidance
finalize_chunk_node_dropping_baton ==
    /\ pc = "finalize_chunk"
    /\ current_chunk_idx' = current_chunk_idx + 1
    /\ is_chunk_finalized' = FALSE
    /\ actions_results' = << >>
    /\ guidance' = IF is_chunk_finalized THEN guidance ELSE EmptyGuidance
    /\ pc' = "prepare_chunk"
    /\ UNCHANGED <<text, chunks, current_chunk, json_document, messages,
                   iteration_count, max_iterations, error, llm_calls, patch_call,
                   finalize_seen, patched_document,
                   llm_input, tool_call, final_state>>

\* faulty variant: the flag of the chunk that was left is not cleared
finalize_chunk_node_keeping_flag ==
    /\ pc = "finalize_chunk"
    /\ current_chunk_idx' = current_chunk_idx + 1
    /\ actions_results' = << >>
    /\ pc' = "prepare_chunk"
    /\ UNCHANGED <<text, chunks, current_chunk, json_document, guidance, messages,
                   is_chunk_finalized, iteration_count, max_iterations, error, llm_calls,
                   patch_call, finalize_seen, patched_document,
                   llm_input, tool_call, final_state>>

finalize_chunk_node ==
    /\ pc = "finalize_chunk"
    /\ current_chunk_idx' = current_chunk_idx + 1
    /\ is_chunk_finalized' = FALSE
    /\ actions_results' = << >>
    /\ pc' = "prepare_chunk"
    /\ UNCHANGED <<text, chunks, current_chunk, json_document, guidance, messages,
                   iteration_count, max_iterations, error, llm_calls, patch_call,
                   finalize_seen, patched_document,
                   llm_input, tool_call, final_state>>

Next ==
    \/ chunk_text_node
    \/ prepare_chunk_node
    \/ call_llm_node
    \/ execute_tools_node
    \/ finalize_chunk_node

Spec == Init /\ [][Next]_vars

(***************************************************************************)
(* PatchSpec: the apply_patches branch of the dispatcher on its own, run   *)
(* once on each document of Documents with each patch list of at most      *)
(* MaxPatchLen operations over PatchOps.                                   *)
(***************************************************************************)
PatchOps ==
    {Add(<<"a">>, EmptyArr), Add(<<"a", "-">>, Scalar(NumOne)), Add(<<"a", "0">>, Scalar(StrJ)),
     Add(<<"b">>, Scalar(StrJ)), Add(<< >>, EmptyArr),
     Remove(<<"a">>), Remove(<<"a", "0">>), Remove(<<"b", "0">>), Remove(<<"a", "-">>),
     Replace(<<"b">>, EmptyObj), Replace(<<"a", "-">>, Scalar(NumOne)),
     Move(<<"a", "0">>, <<"b">>), Copy(<<"a">>, <<"a", "-">>),
     Test(<<"b">>, Scalar(StrJ)), PatchOp("frobnicate", <<"a">>, << >>, EmptyObj)}

PatchLists == UNION {[1..n -> PatchOps] : n \in 0..MaxPatchLen}

\* the documents of at most MaxDocNodes nodes that patches over PatchOps
\* build from the initial document {}
RECURSIVE BuiltFrom(_)
BuiltFrom(docs) ==
    LET outcomes == {ApplyOperation(d, op) : d \in docs, op \in PatchOps}
        more == {r.doc : r \in {o \in outcomes : o.ok /\ DocSize(o.doc) <= MaxDocNodes}}
    IN  IF more \subseteq docs THEN docs ELSE BuiltFrom(docs \cup more)

Documents == BuiltFrom({EmptyObj})

PatchInit ==
    /\ pc = "execute_tools"
    /\ text = "some text"
    /\ max_iterations = 1
    /\ chunks = <<"chunk 1">>
    /\ current_chunk_idx = 0
    /\ current_chunk = "chunk 1"
    /\ json_document \in Documents
    /\ guidance = EmptyGuidance
    /\ messages = << >>
    /\ actions_results = << >>
    /\ is_chunk_finalized = FALSE
    /\ iteration_count = 1
    /\ error = None
    /\ llm_calls = <<0>>
    /\ patch_call \in {[made |-> FALSE, patches |-> patches] : patches \in PatchLists}
    /\ finalize_seen = NoFinalize
    /\ patched_document = json_document
    /\ llm_input = << >>
    /\ tool_call = NoToolCall
    /\ final_state = << >>

\* one apply_patches action run by the dispatcher loop on json_document
patch_action ==
    /\ ~patch_call.made
    /\ LET ran == DispatchFrom(<<Patches(patch_call.patches)>>, 1, json_document, << >>)
       IN  /\ json_document' = ran.json_document
           /\ actions_results' = ran.actions_results
           /\ patch_call' = [made |-> TRUE, patches |-> patch_call.patches,
                             document |-> json_document,
                             result |-> ran.actions_results[1].result]
    /\ patched_document' = PatchedBy(<<Patches(patch_call.patches)>>, 1, patched_document)
    /\ UNCHANGED <<pc, text, chunks, current_chunk_idx, current_chunk, guidance,
                   messages, is_chunk_finalized, iteration_count, max_iterations,
                   error, llm_calls, finalize_seen,
                   llm_input, tool_call, final_state>>

PatchNext == patch_action

PatchSpec == PatchInit /\ [][PatchNext]_vars

(***************************************************************************)
(* text_to_json/tools/json_pointer.py.  A Python string is the sequence of *)
(* its characters.                                                         *)
(***************************************************************************)
Chars == {"~", "/", "0", "1", "a", "b"}

Strings == UNION {[1..n -> Chars] : n \in 0..MaxStrLen}

\* s.replace(old, new): the occurrences of old, found from the left and
\* not overlapping, replaced by new
RECURSIVE str_replace(_, _, _)
str_replace(s, old, new) ==
    IF Len(s) < Len(old) THEN s
    ELSE IF SubSeq(s, 1, Len(old)) = old
    THEN new \o str_replace(SubSeq(s, Len(old) + 1, Len(s)), old, new)
    ELSE <<Head(s)>> \o str_replace(Tail(s), old, new)

\* s.split("/")
RECURSIVE str_split(_, _)
str_split(s, piece) ==
    IF s = << >> THEN <<piece>>
    ELSE IF Head(s) = "/" THEN <<piece>> \o str_split(Tail(s), << >>)
    ELSE str_split(Tail(s), Append(piece, Head(s)))

startswith(s, c) == s # << >> /\ Head(s) = c

\* faulty variant: "~0" is decoded before "~1"
decode_pointer_token_tilde_first(token) ==
    str_replace(str_replace(token, <<"~", "0">>, <<"~">>), <<"~", "1">>, <<"/">>)

decode_pointer_token(token) ==
    str_replace(str_replace(token, <<"~", "1">>, <<"/">>), <<"~", "0">>, <<"~">>)

encode_pointer_token(token) ==
    str_replace(str_replace(token, <<"~">>, <<"~", "0">>), <<"/">>, <<"~", "1">>)

Parsed(tokens) == [ok |-> TRUE, tokens |-> tokens, error |-> ""]
InvalidPointer == [ok |-> FALSE, tokens |-> << >>, error |-> "ValueError: Invalid JSON Pointer"]

DecodeAll(pieces) == [i \in 1..Len(pieces) |-> decode_pointer_token(pieces[i])]

\* faulty variant: "/" is split like any other pointer
parse_json_pointer_splitting_root(path) ==
    IF path = << >> THEN Parsed(<< >>)
    ELSE IF ~startswith(path, "/") THEN InvalidPointer
    ELSE Parsed(DecodeAll(Tail(str_split(path, << >>))))

parse_json_pointer(path) ==
    IF path = << >> \/ path = <<"/">> THEN Parsed(<< >>)
    ELSE IF ~startswith(path, "/") THEN InvalidPointer
    ELSE Parsed(DecodeAll(Tail(str_split(path, << >>))))

parse_json_pointer_lenient(path) ==
    IF path = << >> \/ path = <<"/">> THEN Parsed(<< >>)
    ELSE Bind(IF ~startswith(path, "/") THEN <<"/">> \o path ELSE path, LAMBDA slashed :
            Parsed(DecodeAll(Tail(str_split(slashed, << >>)))))

join_pointer(base, token) ==
    Bind(encode_pointer_token(token), LAMBDA escaped :
        IF base = << >> THEN <<"/">> \o escaped
        ELSE base \o <<"/">> \o escaped)

(***************************************************************************)
(* Direct calls of the tool functions: the run state stays as it is, and   *)
(* tool_call holds the call and what it returned.                          *)
(***************************************************************************)
ToolInit(calls) ==
    /\ pc = "tool"
    /\ text = "some text"
    /\ max_iterations = 1
    /\ chunks = <<"chunk 1">>
    /\ current_chunk_idx = 0
    /\ current_chunk = "chunk 1"
    /\ json_document = EmptyObj
    /\ guidance = EmptyGuidance
    /\ messages = << >>
    /\ actions_results = << >>
    /\ is_chunk_finalized = FALSE
    /\ iteration_count = 0
    /\ error = None
    /\ llm_calls = << >>
    /\ patch_call = NoCall
    /\ finalize_seen = NoFinalize
    /\ patched_document = EmptyObj
    /\ llm_input = << >>
    /\ tool_call \in calls
    /\ final_state = << >>

Call(tool, input) == [tool |-> tool, made |-> FALSE, input |-> input]

Made(call, result) ==
    [tool |-> call.tool, made |-> TRUE, input |-> call.input, result |-> result]

RunStateUnchanged ==
    UNCHANGED <<pc, text, chunks, current_chunk_idx, current_chunk, json_document,
                guidance, messages, actions_results, is_chunk_finalized,
                iteration_count, max_iterations, error, llm_calls, patch_call,
                finalize_seen, patched_document, llm_input, final_state>>

(***************************************************************************)
(* PointerSpec: the functions of json_pointer.py, each called once on each *)
(* string of at most MaxStrLen characters over Chars; a token that was     *)
(* encoded is then decoded.  join_pointer is called once on each base and  *)
(* token that together have at most MaxStrLen characters, the token at     *)
(* most two.                                                               *)
(***************************************************************************)
PointerInit ==
    \/ ToolInit({Call(tool, string) :
                   tool \in {"encode_pointer_token", "parse_json_pointer",
                             "parse_json_pointer_lenient"},
                   string \in Strings})
    \/ ToolInit({[tool |-> "join_pointer", made |-> FALSE, base |-> base, token |-> token] :
                   base \in {b \in Strings : Len(b) <= MaxStrLen - 2},
                   token \in {t \in Strings : Len(t) <= 2}})

encode_action ==
    /\ tool_call.tool = "encode_pointer_token"
    /\ ~tool_call.made
    /\ tool_call' = Made(tool_call, encode_pointer_token(tool_call.input))
    /\ RunStateUnchanged

\* decode_pointer_token called on what encode_pointer_token returned
decode_action ==
    /\ tool_call.tool = "encode_pointer_token"
    /\ tool_call.made
    /\ tool_call' = [tool |-> "decode_pointer_token", made |-> TRUE,
                     input |-> tool_call.result, encoded_from |-> tool_call.input,
                     result |-> decode_pointer_token(tool_call.result)]
    /\ RunStateUnchanged

parse_action ==
    /\ tool_call.tool = "parse_json_pointer"
    /\ ~tool_call.made
    /\ tool_call' = Made(tool_call, parse_json_pointer(tool_call.input))
    /\ RunStateUnchanged

parse_lenient_action ==
    /\ tool_call.tool = "parse_json_pointer_lenient"
    /\ ~tool_call.made
    /\ tool_call' = Made(tool_call, parse_json_pointer_lenient(tool_call.input))
    /\ RunStateUnchanged

join_action ==
    /\ tool_call.tool = "join_pointer"
    /\ ~tool_call.made
    /\ tool_call' = [tool |-> "join_pointer", made |-> TRUE,
                     base |-> tool_call.base, token |-> tool_call.token,
                     result |-> join_pointer(tool_call.base, tool_call.token)]
    /\ RunStateUnchanged

PointerNext ==
    \/ join_action
    \/ encode_action
    \/ decode_action
    \/ parse_action
    \/ parse_lenient_action

PointerSpec == PointerInit /\ [][PointerNext]_vars

(***************************************************************************)
(* ReadSpec: read_value called once on each document of Documents, with    *)
(* each path of ReadPaths, each max_depth up to MaxReadDepth and an        *)
(* array limit of one item or the default.                                 *)
(***************************************************************************)
ReadPaths == {<< >>, <<"a">>, <<"a", "0">>, <<"b">>, <<"zz">>}

ReadInit ==
    ToolInit({Call("read_value", [document |-> document, path |-> path,
                                  max_depth |-> max_depth,
                                  max_array_items |-> max_array_items]) :
                document \in Documents, path \in ReadPaths,
                max_depth \in 0..MaxReadDepth, max_array_items \in {1, 50}})

read_action ==
    /\ tool_call.tool = "read_value"
    /\ ~tool_call.made
    /\ tool_call' = Made(tool_call,
                         read_value(tool_call.input.document, tool_call.input.path,
                                    tool_call.input.max_depth,
                                    tool_call.input.max_array_items))
    /\ RunStateUnchanged

ReadNext == read_action

ReadSpec == ReadInit /\ [][ReadNext]_vars

(***************************************************************************)
(* tools/search_pointer.py with its limit, on Python objects: a heap maps  *)
(* the identity of each dict and list to its members in order, and a       *)
(* member is a scalar or the identity of a dict or list, so that an object *)
(* may contain itself.  (search_pointer above is the same search on a      *)
(* JSON document, which has no cycles, with the default limit.)            *)
(***************************************************************************)
HeapIds == {1, 2}
Keys == {<<"j">>, <<"~", "/">>}

Val(label) == [t |-> "val", label |-> label, id |-> 0]
Ref(id) == [t |-> "ref", label |-> "", id |-> id]

Members == {Val(StrJ), Val(NumOne)} \cup {Ref(id) : id \in HeapIds}

\* every dict of at most MaxItems keys and every list of at most MaxItems
\* items, for each identity
Heaps ==
    LET DictItems ==
            {items \in UNION {[1..n -> [key : Keys, val : Members]] : n \in 0..MaxItems} :
                \A i, j \in 1..Len(items) : items[i].key = items[j].key => i = j}
        ListItems == UNION {[1..n -> [key : {<< >>}, val : Members]] : n \in 0..MaxItems}
    IN  [HeapIds -> [kind : {"dict"}, items : DictItems]
                        \cup [kind : {"list"}, items : ListItems]]

\* faulty variant: "/" is escaped before "~"
_escape_pointer_token_slash_first(token) ==
    str_replace(str_replace(token, <<"/">>, <<"~", "1">>), <<"~">>, <<"~", "0">>)

_escape_pointer_token(token) ==
    str_replace(str_replace(token, <<"~">>, <<"~", "0">>), <<"/">>, <<"~", "1">>)

\* more calls of _search_recursive than a search that enters each dict and
\* list once can make: a search that reaches this number is one that does
\* not end
SearchCallLimit == Cardinality(HeapIds) * MaxItems + 2

\* faulty variant: no set of the objects already entered
RECURSIVE _search_recursive_unguarded(_, _, _, _, _, _, _)
RECURSIVE SearchItemsUnguarded(_, _, _, _, _, _, _, _)
_search_recursive_unguarded(heap, obj, current_path, query, search_type, limit, st) ==
    IF st.calls >= SearchCallLimit THEN [truncated |-> FALSE, st |-> [st EXCEPT !.diverged = TRUE]]
    ELSE IF Len(st.matches) >= limit THEN [truncated |-> TRUE, st |-> [st EXCEPT !.calls = @ + 1]]
    ELSE SearchItemsUnguarded(heap, obj, 1, current_path, query, search_type, limit,
                              [st EXCEPT !.calls = @ + 1])

SearchItemsUnguarded(heap, obj, k, current_path, query, search_type, limit, st) ==
    IF k > Len(heap[obj].items) THEN [truncated |-> FALSE, st |-> st]
    ELSE IF Len(st.matches) >= limit THEN [truncated |-> TRUE, st |-> st]
    ELSE LET item == heap[obj].items[k]
             is_dict == heap[obj].kind = "dict"
             new_path == current_path \o <<"/">> \o
                            (IF is_dict THEN _escape_pointer_token(item.key)
                             ELSE <<IndexToken(k - 1)>>)
             compound == item.val.t = "ref"
             found == IF search_type = "key" THEN is_dict /\ _matches(item.key, query, FALSE)
                      ELSE ~compound /\ _matches(str(item.val.label), query, FALSE)
             match == IF search_type = "key" THEN [pointer |-> new_path, key |-> item.key]
                      ELSE [pointer |-> new_path, matched_value |-> str(item.val.label)]
         IN  Bind(IF found THEN [st EXCEPT !.matches = Append(@, match)] ELSE st, LAMBDA st1 :
             IF compound
             THEN Bind(_search_recursive_unguarded(heap, item.val.id, new_path, query,
                                                   search_type, limit, st1), LAMBDA r :
                      IF r.truncated \/ r.st.diverged THEN r
                      ELSE SearchItemsUnguarded(heap, obj, k + 1, current_path, query,
                                                search_type, limit, r.st))
             ELSE SearchItemsUnguarded(heap, obj, k + 1, current_path, query, search_type,
                                       limit, st1))

\* _search_recursive: matches and seen are the two objects it updates, so
\* they are returned with its result; "calls" counts its invocations
RECURSIVE _search_recursive(_, _, _, _, _, _, _)
RECURSIVE SearchItems(_, _, _, _, _, _, _, _)
_search_recursive(heap, obj, current_path, query, search_type, limit, st) ==
    IF st.calls >= SearchCallLimit THEN [truncated |-> FALSE, st |-> [st EXCEPT !.diverged = TRUE]]
    ELSE IF Len(st.matches) >= limit THEN [truncated |-> TRUE, st |-> [st EXCEPT !.calls = @ + 1]]
    ELSE IF obj \in st.seen THEN [truncated |-> FALSE, st |-> [st EXCEPT !.calls = @ + 1]]
    ELSE SearchItems(heap, obj, 1, current_path, query, search_type, limit,
                     [st EXCEPT !.calls = @ + 1, !.seen = @ \cup {obj}])

\* the for loop over the members of obj, from the k-th on
SearchItems(heap, obj, k, current_path, query, search_type, limit, st) ==
    IF k > Len(heap[obj].items) THEN [truncated |-> FALSE, st |-> st]
    ELSE IF Len(st.matches) >= limit THEN [truncated |-> TRUE, st |-> st]
    ELSE LET item == heap[obj].items[k]
             is_dict == heap[obj].kind = "dict"
             new_path == current_path \o <<"/">> \o
                            (IF is_dict THEN _escape_pointer_token(item.key)
                             ELSE <<IndexToken(k - 1)>>)
             compound == item.val.t = "ref"
             found == IF search_type = "key" THEN is_dict /\ _matches(item.key, query, FALSE)
                      ELSE ~compound /\ _matches(str(item.val.label), query, FALSE)
             match == IF search_type = "key" THEN [pointer |-> new_path, key |-> item.key]
                      ELSE [pointer |-> new_path, matched_value |-> str(item.val.label)]
         IN  Bind(IF found THEN [st EXCEPT !.matches = Append(@, match)] ELSE st, LAMBDA st1 :
             IF compound
             THEN Bind(_search_recursive(heap, item.val.id, new_path, query, search_type,
                                         limit, st1), LAMBDA r :
                      IF r.truncated \/ r.st.diverged THEN r
                      ELSE SearchItems(heap, obj, k + 1, current_path, query, search_type,
                                       limit, r.st))
             ELSE SearchItems(heap, obj, k + 1, current_path, query, search_type, limit, st1))

\* search_pointer(document, query, search_type, False, limit): document is
\* the object of identity 1
search_pointer_with_limit(heap, query, search_type, limit) ==
    Bind(_search_recursive(heap, 1, << >>, query, search_type, limit,
                           [matches |-> << >>, seen |-> {}, calls |-> 0,
                            diverged |-> FALSE]), LAMBDA r :
        [query |-> query, type |-> search_type, fuzzy |-> FALSE,
         matches |-> r.st.matches, count |-> Len(r.st.matches),
         truncated |-> r.truncated, returned |-> ~r.st.diverged])

(***************************************************************************)
(* SearchSpec: search_pointer called once on each heap of Heaps, by key    *)
(* and by value, with a query that matches everything or only the string,  *)
(* and each limit up to MaxLimit; and _matches called in both modes on     *)
(* each text and query of at most MaxTextLen characters over MatchChars    *)
(* and on the texts of MatchExamples.                                      *)
(***************************************************************************)
MatchChars == {"a", "A", "b", " "}

MatchStrings == UNION {[1..n -> MatchChars] : n \in 0..MaxTextLen}

\* "Client X Corp" with the queries "client x" and "x  client"
MatchExamples ==
    {[text_ |-> <<"C", "l", "i", "e", "n", "t", " ", "X", " ", "C", "o", "r", "p">>,
      query |-> q] :
        q \in {<<"c", "l", "i", "e", "n", "t", " ", "x">>,
               <<"x", " ", "\t", "c", "l", "i", "e", "n", "t">>}}

SearchInit ==
    \/ ToolInit({Call("search_pointer", [document |-> heap, query |-> query,
                                         search_type |-> search_type, limit |-> limit]) :
                   heap \in Heaps, query \in {<< >>, <<"J">>}, search_type \in {"key", "value"},
                   limit \in 0..MaxLimit})
    \/ ToolInit({Call("_matches", input) :
                   input \in [text_ : MatchStrings, query : MatchStrings]})
    \/ ToolInit({Call("_matches", input) : input \in MatchExamples})

search_action ==
    /\ tool_call.tool = "search_pointer"
    /\ ~tool_call.made
    /\ tool_call' = Made(tool_call,
                         search_pointer_with_limit(tool_call.input.document,
                                                   tool_call.input.query,
                                                   tool_call.input.search_type,
                                                   tool_call.input.limit))
    /\ RunStateUnchanged

\* _matches(text, query, False) and _matches(text, query, True)
match_action ==
    /\ tool_call.tool = "_matches"
    /\ ~tool_call.made
    /\ tool_call' = Made(tool_call,
                         [exact |-> _matches(tool_call.input.text_, tool_call.input.query, FALSE),
                          fuzzy |-> _matches(tool_call.input.text_, tool_call.input.query, TRUE)])
    /\ RunStateUnchanged

SearchNext ==
    \/ search_action
    \/ match_action

SearchSpec == SearchInit /\ [][SearchNext]_vars

(***************************************************************************)
(* Properties.                                                             *)
(***************************************************************************)
\* the least 0-based position whose operation cannot be applied to the
\* document produced by the operations before it
RECURSIVE LeastFailing(_, _, _)
LeastFailing(d, patches, i) ==
    Bind(ApplyOperation(d, patches[i + 1]), LAMBDA r :
        IF r.ok THEN LeastFailing(r.doc, patches, i + 1) ELSE i)

AllRecognized(patches) == \A i \in 1..Len(patches) : patches[i].op \in valid_ops

\* C1: apply_patches is all-or-nothing.  A call succeeds exactly when every
\* operation applies in order, and then returns (and the run state holds)
\* the document with all operations applied; a call that fails leaves
\* json_document, the caller's document, exactly as it was before the call.
PatchAllOrNothing ==
    patch_call.made =>
        LET r == patch_call.result
            all == AllApplied(patch_call.document, patch_call.patches)
        IN  /\ r.success = all.ok
            /\ r.success => (r.document = all.doc /\ json_document = all.doc)
            /\ ~r.success => json_document = patch_call.document

\* a failed call whose first operation, applied alone, changes the document
PatchFailedAfterPrefix ==
    /\ patch_call.made
    /\ ~patch_call.result.success
    /\ patch_call.result.failed_at_index >= 1
    /\ ApplyOperation(patch_call.document, patch_call.patches[1]).ok
    /\ ApplyOperation(patch_call.document, patch_call.patches[1]).doc # patch_call.document
    /\ json_document = patch_call.document

\* C6: when all operation names are recognized and the call fails,
\* failed_at_index is the least position whose operation cannot be applied
\* to the document produced by the operations before it.
FailedIndexIsFirstFailing ==
    (/\ patch_call.made
     /\ patch_call.patches # << >>
     /\ AllRecognized(patch_call.patches)
     /\ ~patch_call.result.success)
    => patch_call.result.failed_at_index = LeastFailing(patch_call.document, patch_call.patches, 0)

UnrecognizedAt(patches) == {i \in 0..(Len(patches) - 1) : patches[i + 1].op \notin valid_ops}

\* C7: a non-empty list with an operation name outside {add, remove,
\* replace, move, copy} fails with failed_at_index = the position of the
\* first such operation, and the document is left as it was.
ValidationPass ==
    (patch_call.made /\ UnrecognizedAt(patch_call.patches) # {}) =>
        /\ ~patch_call.result.success
        /\ patch_call.result.failed_at_index \in UnrecognizedAt(patch_call.patches)
        /\ \A j \in UnrecognizedAt(patch_call.patches) : patch_call.result.failed_at_index <= j
        /\ json_document = patch_call.document

\* a rejected list whose first operation is recognized and would have applied
ValidationRejectsApplicablePrefix ==
    /\ patch_call.made
    /\ Len(patch_call.patches) >= 2
    /\ patch_call.patches[1].op \in valid_ops
    /\ patch_call.patches[2].op \notin valid_ops
    /\ ApplyOperation(patch_call.document, patch_call.patches[1]).ok
    /\ ApplyOperation(patch_call.document, patch_call.patches[1]).doc # patch_call.document
    /\ patch_call.result.failed_at_index = 1

\* C8: a list whose first rejected operation is a 'test' fails with the
\* dedicated "Operation 'test' is not supported" error and failed_at_index
\* = the position of that operation.
TestHasDedicatedError ==
    \A i \in 1..Len(patch_call.patches) :
        (/\ patch_call.made
         /\ patch_call.patches[i].op = "test"
         /\ \A j \in 1..(i - 1) : patch_call.patches[j].op \in valid_ops)
        => /\ ~patch_call.result.success
           /\ patch_call.result.failed_at_index = i - 1
           /\ patch_call.result.error = "Operation 'test' is not supported"

\* the actions of the reply execute_tools_node is about to run
PendingActions == Get(LastAIMessage(messages).content.data, "actions", << >>)

\* C2: a turn that is exactly [update_guidance] sets is_chunk_finalized; a
\* turn of two or more actions that contains update_guidance leaves it false.
FinalizationGate ==
    [][(pc = "execute_tools" /\ LastAIMessage(messages).content.parses) =>
          /\ (Len(PendingActions) = 1 /\ PendingActions[1].action = "update_guidance")
                => is_chunk_finalized'
          /\ (/\ Len(PendingActions) >= 2
              /\ \E i \in 1..Len(PendingActions) : PendingActions[i].action = "update_guidance")
                => ~is_chunk_finalized']_vars

\* a chunk finalized by a finalize-only turn, followed by a chunk in which
\* a mixed turn got the "must be the ONLY action" result and did not finalize
GateBothWays ==
    /\ guidance # EmptyGuidance
    /\ Len(actions_results) >= 2
    /\ \E i \in 1..Len(actions_results) :
          /\ actions_results[i].action = "update_guidance"
          /\ actions_results[i].result = FinalizeViolation
    /\ ~is_chunk_finalized
    /\ pc = "call_llm"

\* number of model calls made for chunk k
CallsFor(k) == Cardinality({i \in 1..Len(llm_calls) : llm_calls[i] = k})

\* C3: a chunk left without a finalize-only turn and without error is left
\* after exactly max_iterations model calls.
IterationCapExact ==
    (pc = "finalize_chunk" /\ ~is_chunk_finalized /\ error = None)
        => CallsFor(current_chunk_idx) = max_iterations

\* C4: once error is set, current_chunk_idx keeps its value.
ErrorFreezesChunkIndex ==
    [][error # None => current_chunk_idx' = current_chunk_idx]_vars

\* C5: once error is set it is never cleared, the model is not invoked and
\* no tool is executed any more, and the only steps left lead to the end of
\* the run, whatever chunks remain.
ErrorShortCircuit ==
    [][error # None =>
          /\ error' = error
          /\ llm_calls' = llm_calls
          /\ pc \notin {"call_llm", "execute_tools"}
          /\ pc' \notin {"call_llm", "execute_tools"}
          /\ json_document' = json_document
          /\ (pc = "finalize_chunk" => pc' = "prepare_chunk")
          /\ (pc = "prepare_chunk" => pc' = "__end__")]_vars

\* a run ended by an error while chunks were still unprocessed
EndedOnErrorWithChunksLeft ==
    /\ pc = "__end__"
    /\ error = "Error parsing LLM response"
    /\ current_chunk_idx < Len(chunks)

\* C9: 0 <= current_chunk_idx <= len(chunks) in every reachable state.
ChunkIndexInRange ==
    /\ 0 <= current_chunk_idx
    /\ current_chunk_idx <= Len(chunks)

\* all chunks of a run of at least two chunks consumed
AllChunksConsumed ==
    /\ Len(chunks) >= 2
    /\ current_chunk_idx = Len(chunks)
    /\ error = None
    /\ pc = "__end__"

\* C10: when current_chunk_idx has reached len(chunks) (of a run that has
\* chunks), the run has ended with error unset.
ReachingEndIsSuccess ==
    (Len(chunks) > 0 /\ current_chunk_idx = Len(chunks) /\ pc = "__end__")
        => error = None

\* C11: current_chunk_idx changes only in the finalize_chunk step, each time
\* by +1 and for a chunk that was given to the model; a model call is
\* always for the current chunk, every chunk before it has been given to
\* the model (none skipped) and no call so far was for a later chunk (a
\* chunk that was left is never taken up again).
ChunksInOrder ==
    [][/\ current_chunk_idx' # current_chunk_idx =>
            /\ pc = "finalize_chunk"
            /\ current_chunk_idx' = current_chunk_idx + 1
            /\ CallsFor(current_chunk_idx) >= 1
       /\ llm_calls' # llm_calls =>
            /\ llm_calls' = Append(llm_calls, current_chunk_idx)
            /\ \A k \in 0..(current_chunk_idx - 1) : CallsFor(k) >= 1
            /\ \A i \in 1..Len(llm_calls) : llm_calls[i] <= current_chunk_idx]_vars

\* two chunks left one after the other, the first after several model calls
ChunksProcessedInOrder ==
    /\ current_chunk_idx = 2
    /\ CallsFor(0) >= 2
    /\ CallsFor(1) >= 1
    /\ error = None

\* C12: guidance changes only in the execute_tools step of a turn that is
\* exactly [update_guidance]; no other step changes it.
GuidanceSingleWriter ==
    [][guidance' # guidance =>
          /\ pc = "execute_tools"
          /\ LastAIMessage(messages).content.parses
          /\ Len(PendingActions) = 1
          /\ PendingActions[1].action = "update_guidance"]_vars

\* a guidance installed in chunk 0 that chunk 1 was prepared with and still
\* holds after a multi-action turn with update_guidance and a forced
\* finalization
GuidanceKeptByOtherSteps ==
    /\ current_chunk_idx = 1
    /\ pc = "finalize_chunk"
    /\ ~is_chunk_finalized
    /\ error = None
    /\ guidance # EmptyGuidance
    /\ messages[1].content.guidance_str = json_dumps(guidance)
    /\ \E i \in 1..Len(actions_results) : actions_results[i].result = FinalizeViolation

\* C13: after a finalize-only turn guidance is exactly the four fields of
\* that action's input, an omitted field being "" (0 for the count),
\* whatever guidance was before.
GuidanceFullReplacement ==
    [][(/\ pc = "execute_tools"
        /\ LastAIMessage(messages).content.parses
        /\ Len(PendingActions) = 1
        /\ PendingActions[1].action = "update_guidance")
       => LET input == PendingActions[1].input
              given(f, default) == IF f \in DOMAIN input THEN input[f] ELSE default
          IN  guidance' = [last_processed_path |-> given("last_processed_path", ""),
                           current_context |-> given("current_context", ""),
                           pending_action |-> given("pending_action", ""),
                           extracted_entities_count |-> given("extracted_entities_count", 0)]]_vars

\* a finalize-only turn that gave pending_action alone, in a chunk prepared
\* with a guidance whose other fields were set
GuidanceReplacedNotMerged ==
    /\ is_chunk_finalized
    /\ messages[1].content.guidance_str # JsonNull
    /\ messages[1].content.guidance_str.json.last_processed_path = "/a"
    /\ guidance = [last_processed_path |-> "", current_context |-> "",
                   pending_action |-> "expect_total", extracted_entities_count |-> 0]

\* the system prompt the model is given: the last SystemMessage of a history
SystemPrompt(msgs) ==
    LET at == {i \in 1..Len(msgs) : msgs[i].type = "system"}
    IN  msgs[CHOOSE i \in at : \A j \in at : j <= i].content

\* the guidance a finalize-only turn with this input installs
InstalledBy(input) ==
    [f \in {"last_processed_path", "current_context", "pending_action",
            "extracted_entities_count"} |->
        IF f \in DOMAIN input THEN input[f]
        ELSE IF f = "extracted_entities_count" THEN 0 ELSE ""]

\* C14: the prompt prepare_chunk builds for a chunk, and the prompt in the
\* history of every model call, carries exactly the guidance installed by
\* the most recent finalize-only turn of the run (null before the first).
GuidanceHandOff ==
    [][/\ (pc = "prepare_chunk" /\ current_chunk_idx < Len(chunks)) =>
            SystemPrompt(messages').guidance_str =
                IF finalize_seen.seen THEN json_dumps(InstalledBy(finalize_seen.input))
                ELSE JsonNull
       /\ (pc = "call_llm" /\ CallsFor(current_chunk_idx) = 0) =>
            SystemPrompt(messages).guidance_str =
                IF finalize_seen.seen THEN json_dumps(InstalledBy(finalize_seen.input))
                ELSE JsonNull]_vars

\* two chunks: chunk 0 was finalized with pending_action "expect_total" and
\* chunk 1 is about to be given to the model for the first time
ExpectTotalHandedOver ==
    /\ Len(chunks) = 2
    /\ current_chunk_idx = 1
    /\ pc = "call_llm"
    /\ CallsFor(1) = 0
    /\ finalize_seen = [seen |-> TRUE, input |-> [pending_action |-> "expect_total"]]
    /\ SystemPrompt(messages).guidance_str.json.pending_action = "expect_total"

\* the turn execute_tools_node is about to run through the action loop
MultiActionTurn ==
    /\ pc = "execute_tools"
    /\ LastAIMessage(messages).content.parses
    /\ PendingActions # << >>
    /\ ~(Len(PendingActions) = 1 /\ PendingActions[1].action = "update_guidance")

NotFinalize(item) == item.action # "update_guidance"

\* C15: in a turn of several actions, each update_guidance gets the "must be
\* the ONLY action" error result and changes nothing: guidance is kept, and
\* json_document and the results of the other actions are what the turn
\* without its update_guidance actions produces (a later apply_patches is
\* applied).
MixedFinalizeIsLocalError ==
    [][(MultiActionTurn /\ \E i \in 1..Len(PendingActions) : ~NotFinalize(PendingActions[i]))
       => LET others == DispatchFrom(SelectSeq(PendingActions, NotFinalize), 1,
                                     json_document, << >>)
          IN  /\ guidance' = guidance
              /\ ~is_chunk_finalized'
              /\ error' = error
              /\ Len(actions_results') = Len(PendingActions)
              /\ \A i \in 1..Len(PendingActions) :
                    ~NotFinalize(PendingActions[i]) =>
                        /\ actions_results'[i].action = "update_guidance"
                        /\ DOMAIN actions_results'[i].result = {"error"}
                        /\ actions_results'[i].result.error =
                              "update_guidance must be the ONLY action when finalizing"
              /\ json_document' = others.json_document
              /\ SelectSeq(actions_results', NotFinalize) = others.actions_results]_vars

\* a turn [update_guidance, apply_patches] was run: the first action got the
\* error result, the patch after it was applied
PatchAfterFinalizeApplied ==
    /\ Len(actions_results) = 2
    /\ actions_results[1].result = FinalizeViolation
    /\ actions_results[2].action = "apply_patches"
    /\ actions_results[2].result.success
    /\ json_document = actions_results[2].result.document
    /\ <<"a">> \in DOMAIN json_document
    /\ ~is_chunk_finalized

\* the document the actions before position i of a turn leave to action i
WorkingDocument(actions, i, d) == PatchedBy(SubSeq(actions, 1, i - 1), 1, d)

\* C16: in a turn run through the action loop every action, in list order,
\* gets the result it has when run alone on the document produced by the
\* apply_patches actions before it that applied in full; an apply_patches
\* succeeds exactly when all its operations apply to that document, a
\* failed one leaves it as it is, and json_document after the turn is the
\* document produced by the successful ones.
TurnThreadsDocument ==
    [][MultiActionTurn =>
          /\ Len(actions_results') = Len(PendingActions)
          /\ \A i \in 1..Len(PendingActions) :
                LET before == WorkingDocument(PendingActions, i, json_document)
                    alone == DispatchFrom(<<PendingActions[i]>>, 1, before, << >>)
                IN  /\ actions_results'[i] = alone.actions_results[1]
                    /\ PendingActions[i].action = "apply_patches" =>
                          /\ actions_results'[i].result.success =
                                AllApplied(before, PendingActions[i].input.patches).ok
                          /\ ~actions_results'[i].result.success =>
                                alone.json_document = before
          /\ json_document' = PatchedBy(PendingActions, 1, json_document)]_vars

\* a turn [apply_patches, inspect_keys, apply_patches, apply_patches,
\* search_pointer] was run: the inspection saw the object the first patch
\* added, the second patch failed, the third replaced that object and the
\* search found the new value
TurnSawItsOwnPatches ==
    /\ Len(actions_results) = 5
    /\ actions_results[1].result.success
    /\ actions_results[2].result.found
    /\ actions_results[2].result.type = "object"
    /\ ~actions_results[3].result.success
    /\ actions_results[4].result.success
    /\ [pointer |-> <<"b">>, matched_value |-> NumOne] \in actions_results[5].result.matches
    /\ json_document[<<"b">>] = NumOne

\* C17: json_document changes only in the execute_tools step of a turn run
\* through the action loop, and only when an apply_patches action of that
\* turn succeeded; every other step and every turn without a successful
\* apply_patches leaves it as it is.
DocumentSingleWriter ==
    [][json_document' # json_document =>
          /\ MultiActionTurn
          /\ \E i \in 1..Len(PendingActions) :
                /\ PendingActions[i].action = "apply_patches"
                /\ actions_results'[i].result.success
                /\ PendingActions[i].input.patches # << >>]_vars

\* in the second chunk a turn [inspect_keys, read_value, search_pointer]
\* was run on the document the first chunk built
QueriesLeftDocument ==
    /\ current_chunk_idx = 1
    /\ Len(actions_results) = 3
    /\ actions_results[1].action = "inspect_keys"
    /\ actions_results[2].action = "read_value"
    /\ actions_results[2].result.found
    /\ actions_results[3].action = "search_pointer"
    /\ json_document # EmptyObj
    /\ actions_results[2].result.value = Sub(json_document, <<"a">>)
    /\ json_document = patched_document

\* C18: a run that ended with error set has a non-empty error message and
\* a json_document equal to the document built by all the patch lists that
\* applied before the error, those of earlier chunks included.
FatalErrorKeepsDocument ==
    (pc = "__end__" /\ error # None) =>
        /\ error # ""
        /\ json_document = patched_document

\* a run ended by an error in its second chunk, with the document built in
\* the first
FailedWithEarlierWork ==
    /\ pc = "__end__"
    /\ error # None
    /\ CallsFor(0) >= 1
    /\ CallsFor(1) >= 1
    /\ json_document # EmptyObj
    /\ json_document = patched_document

\* C19: with empty input text the run fails at once: from the chunking
\* step on error is the "no text provided" message, chunks is empty,
\* json_document is {}, the model is never invoked and the only step left
\* ends the run.
EmptyTextFailsAtOnce ==
    (text = "" /\ pc # "chunk_text") =>
        /\ error = "No text provided for processing."
        /\ chunks = << >>
        /\ json_document = EmptyObj
        /\ llm_calls = << >>
        /\ pc \in {"prepare_chunk", "__end__"}

\* the run on the empty text has ended
EmptyTextRunEnded ==
    /\ text = ""
    /\ pc = "__end__"
    /\ error = "No text provided for processing."
    /\ llm_calls = << >>

\* C20: the model calls of a run are bounded by the iteration cap: at most
\* max_iterations for each chunk and at most len(chunks) * max_iterations
\* in all.
CallsBoundedByCap ==
    /\ \A k \in 0..(Len(chunks) - 1) : CallsFor(k) <= max_iterations
    /\ Len(llm_calls) <= Len(chunks) * max_iterations

\* the same bounds with the one call every chunk gets whatever the cap is
CallsBoundedByCapOrOne ==
    LET cap == IF max_iterations >= 1 THEN max_iterations ELSE 1
    IN  /\ \A k \in 0..(Len(chunks) - 1) : CallsFor(k) <= cap
        /\ Len(llm_calls) <= Len(chunks) * cap

\* a measure of the work a run has left: the nodes still to run when every
\* chunk takes as many turns as the routing allows
StepsLeft ==
    LET cap == IF max_iterations >= 1 THEN max_iterations ELSE 1
        perChunk == 2 * cap + 2
        atPrepare == (Len(chunks) - current_chunk_idx) * perChunk + 1
    IN  CASE pc = "chunk_text" -> (MaxChunks + 1) * perChunk + 2
          [] pc = "prepare_chunk" -> atPrepare
          [] pc = "call_llm" -> atPrepare - 1 - 2 * iteration_count
          [] pc = "execute_tools" -> atPrepare - 2 * iteration_count
          [] pc = "finalize_chunk" -> atPrepare - perChunk + 1
          [] OTHER -> 0  \* "__end__", or "raised": a node raised

\* every node that runs lowers the measure, which is never negative: no run
\* goes on for ever
Terminates == [][StepsLeft' < StepsLeft /\ StepsLeft' >= 0]_vars

\* the action names the dispatcher handles
KnownActions == {"inspect_keys", "read_value", "search_pointer", "apply_patches",
                 "update_guidance"}

IsKnown(item) == item.action \in KnownActions

\* C28: in a turn run through the action loop, each action whose name is
\* not one of the five known names gets an "Unknown action" error result
\* and changes nothing else: no run error is set, and json_document and
\* the results of the other actions are what the turn without its unknown
\* actions produces (the actions after it are run).
UnknownActionIsLocalError ==
    [][(MultiActionTurn /\ \E i \in 1..Len(PendingActions) : ~IsKnown(PendingActions[i]))
       => LET others == DispatchFrom(SelectSeq(PendingActions, IsKnown), 1,
                                     json_document, << >>)
          IN  /\ error' = error
              /\ Len(actions_results') = Len(PendingActions)
              /\ \A i \in 1..Len(PendingActions) :
                    ~IsKnown(PendingActions[i]) =>
                        /\ actions_results'[i].action = PendingActions[i].action
                        /\ actions_results'[i].result =
                              [error |-> "Unknown action", name |-> PendingActions[i].action]
              /\ json_document' = others.json_document
              /\ SelectSeq(actions_results', IsKnown) = others.actions_results]_vars

\* a turn [frobnicate, apply_patches, read_value] was run: the first action
\* got the error result, the patch after it was applied and the read after
\* that saw the patched array
ActionsAfterUnknownRan ==
    /\ Len(actions_results) = 3
    /\ actions_results[1].action = "frobnicate"
    /\ actions_results[1].result = UnknownAction("frobnicate")
    /\ actions_results[2].result.success
    /\ actions_results[3].result.found
    /\ actions_results[3].result.value = Sub(json_document, <<"a">>)
    /\ json_document[<<"a", "0">>] = NumOne
    /\ error = None

\* the results of a turn run through the action loop: one entry for each
\* action, in order, holding that action's name, input and result
ResultsOfTurn ==
    MultiActionTurn =>
        /\ Len(actions_results') = Len(PendingActions)
        /\ \A i \in 1..Len(PendingActions) :
              /\ actions_results'[i].action = PendingActions[i].action
              /\ actions_results'[i].input = PendingActions[i].input
              /\ actions_results'[i].result =
                    DispatchFrom(<<PendingActions[i]>>, 1,
                                 WorkingDocument(PendingActions, i, json_document),
                                 << >>).actions_results[1].result

\* the chunk is handed back to call_llm after a turn of it
NextTurnOfChunk == pc = "call_llm" /\ iteration_count >= 1

\* C29: after a turn of n >= 1 actions run through the action loop,
\* actions_results holds n entries, the i-th being the result of the i-th
\* action, and when the chunk goes on, the next model call is made with the
\* history followed by the rendering of exactly this list.
ObservationsHandedBack ==
    [][/\ ResultsOfTurn
       /\ NextTurnOfChunk =>
            /\ Len(actions_results) = Len(PendingActions)
            /\ Len(actions_results) >= 1
            /\ pc' = "execute_tools"
            /\ llm_input' = Append(messages, HumanMessage(
                                [observations |-> [json |-> actions_results]]))]_vars

\* the same, for the turns whose results json.dumps accepts
SerializableObservationsHandedBack ==
    [][/\ ResultsOfTurn
       /\ (NextTurnOfChunk /\ JsonSerializable(actions_results)) =>
            /\ Len(actions_results) = Len(PendingActions)
            /\ Len(actions_results) >= 1
            /\ pc' = "execute_tools"
            /\ llm_input' = Append(messages, HumanMessage(
                                [observations |-> [json |-> actions_results]]))]_vars

\* a run that ended in call_llm_node with the exception of json.dumps
RaisedOnObservation ==
    /\ pc = "raised"
    /\ Len(actions_results) = 1
    /\ actions_results[1].result.type = "EndOfList"

\* the prompt prepare_chunk_node builds for the chunk at current_chunk_idx
PromptOfChunk ==
    <<SystemMessage(build_system_prompt(guidance, json_document)),
      HumanMessage(build_user_message(chunks[current_chunk_idx + 1], current_chunk_idx,
                                      Len(chunks)))>>

FreshPath(d, path) ==
    /\ path # << >>
    /\ path \notin DOMAIN d
    /\ SubSeq(path, 1, Len(path) - 1) \in DOMAIN d

\* a fresh path under an object, or the position after the last element of
\* an array, written as its index
InsertionPath(d, path) ==
    /\ FreshPath(d, path)
    /\ LET parent == SubSeq(path, 1, Len(path) - 1)
       IN  \/ Kind(d[parent]) = "obj"
           \/ /\ Kind(d[parent]) = "arr"
              /\ path[Len(path)] = IndexToken(ChildCount(d, parent))

\* the call made was [add path v] alone or with a second operation
AddCall ==
    /\ patch_call.made
    /\ Len(patch_call.patches) >= 1
    /\ patch_call.patches[1].op = "add"

\* the add of an AddCall and the remove of its path undo each other: when
\* the list is the add and the remove the call succeeded and returned the
\* document it was given; when the add is alone it succeeded and a second
\* call [remove path] on the document it returned does
AddUndoneByRemove ==
    LET patches == patch_call.patches
        d == patch_call.document
    IN  CASE Len(patches) = 1 ->
                /\ patch_call.result.success
                /\ Bind(apply_patches(patch_call.result.document, <<Remove(patches[1].path)>>),
                        LAMBDA second : second.success /\ second.document = d)
          [] Len(patches) = 2 /\ patches[2] = Remove(patches[1].path) ->
                /\ patch_call.result.success
                /\ patch_call.result.document = d
          [] OTHER -> TRUE

\* C23: for every document and every path that does not exist in it but
\* whose parent does, [add path v] followed by [remove path], in two calls
\* or in one list, succeeds and yields the original document.
AddRemovePairing ==
    (AddCall /\ FreshPath(patch_call.document, patch_call.patches[1].path))
        => AddUndoneByRemove

\* C23 as amended: the same for the paths an add can create: a fresh key of
\* an object, or the index equal to the length of an array.
AddRemovePairingAtInsertionPath ==
    (AddCall /\ InsertionPath(patch_call.document, patch_call.patches[1].path))
        => AddUndoneByRemove

\* [add /a/0 "J", remove /a/0] was applied to a document whose array a is
\* empty, and returned that document
AddedAndRemovedElement ==
    /\ patch_call.made
    /\ patch_call.patches = <<Add(<<"a", "0">>, Scalar(StrJ)), Remove(<<"a", "0">>)>>
    /\ <<"a">> \in DOMAIN patch_call.document
    /\ patch_call.document[<<"a">>] = "array"
    /\ ChildCount(patch_call.document, <<"a">>) = 0
    /\ patch_call.result.success
    /\ patch_call.result.document = patch_call.document

\* C24: a successful apply_patches returns the document obtained by
\* applying the operations one after the other in list order, each to the
\* result of the one before, with applied_count the length of the list;
\* the empty list is a success with applied_count 0 and the document as it
\* was; {} with [add /b "J"] gives {"b": "J"}.
SuccessAppliesInOrder ==
    patch_call.made =>
        LET patches == patch_call.patches
            d == patch_call.document
            r == patch_call.result
        IN  /\ patches = << >> =>
                  r.success /\ r.applied_count = 0 /\ r.document = d
            /\ r.success =>
                  /\ r.applied_count = Len(patches)
                  /\ AllApplied(d, patches).ok
                  /\ r.document = AllApplied(d, patches).doc
                  /\ json_document = r.document
            /\ (d = EmptyObj /\ patches = <<Add(<<"b">>, Scalar(StrJ))>>) =>
                  /\ r.success
                  /\ r.document = (<< >> :> "object") @@ (<<"b">> :> StrJ)

\* [add /a [], add /a/- 1] was applied to a document without "a": the
\* second operation used the array the first one created
LaterOperationUsedEarlier ==
    /\ patch_call.made
    /\ patch_call.patches = <<Add(<<"a">>, EmptyArr), Add(<<"a", "-">>, Scalar(NumOne))>>
    /\ <<"a">> \notin DOMAIN patch_call.document
    /\ patch_call.result.success
    /\ patch_call.result.applied_count = 2
    /\ patch_call.result.document[<<"a", "0">>] = NumOne
    /\ ~AddOperation(patch_call.document, <<"a", "-">>, Scalar(NumOne)).ok

\* C21: decode_pointer_token(encode_pointer_token(s)) = s for every string
\* s over an alphabet that contains "~" and "/".
PointerTokenRoundTrip ==
    (tool_call.tool = "decode_pointer_token" /\ tool_call.made)
        => /\ tool_call.input = encode_pointer_token(tool_call.encoded_from)
           /\ tool_call.result = tool_call.encoded_from

\* the token "~1/" was encoded as "~01~1" and decoded back
EscapeLookalikeRoundTripped ==
    /\ tool_call.tool = "decode_pointer_token"
    /\ tool_call.made
    /\ tool_call.encoded_from = <<"~", "1", "/">>
    /\ tool_call.input = <<"~", "0", "1", "~", "1">>
    /\ tool_call.result = <<"~", "1", "/">>

\* the positions of "/" in s, and the piece of s after the k-th of them
SlashPositions(s) == {i \in 1..Len(s) : s[i] = "/"}

PieceAfter(s, i) ==
    LET later == {j \in SlashPositions(s) : j > i}
        stop == IF later = {} THEN Len(s) + 1
                ELSE CHOOSE j \in later : \A k \in later : j <= k
    IN  SubSeq(s, i + 1, stop - 1)

\* the pieces of s that follow its slashes, in order, each decoded
TokensBySlash(s) ==
    LET slashes == SlashPositions(s)
        nth(k) == CHOOSE i \in slashes : Cardinality({j \in slashes : j < i}) = k - 1
    IN  [k \in 1..Cardinality(slashes) |-> decode_pointer_token(PieceAfter(s, nth(k)))]

\* C22: parse_json_pointer returns no tokens for "" and "/", fails with the
\* invalid-pointer error for every other string that does not start with
\* "/", and otherwise returns the pieces between the slashes, each decoded
\* ("/a~1b" gives ["a/b"]); parse_json_pointer_lenient returns what
\* parse_json_pointer returns whenever that succeeds, and for a path
\* without a leading "/" what parse_json_pointer returns for "/" + path.
ParseContract ==
    LET path == tool_call.input
        r == tool_call.result
    IN  /\ (tool_call.tool = "parse_json_pointer" /\ tool_call.made) =>
              /\ path \in {<< >>, <<"/">>} => r.ok /\ r.tokens = << >>
              /\ (path \notin {<< >>, <<"/">>} /\ ~startswith(path, "/")) =>
                    ~r.ok /\ r.error = "ValueError: Invalid JSON Pointer"
              /\ (path # <<"/">> /\ startswith(path, "/")) =>
                    r.ok /\ r.tokens = TokensBySlash(path)
              /\ path = <<"/", "a", "~", "1", "b">> => r.tokens = << <<"a", "/", "b">> >>
        /\ (tool_call.tool = "parse_json_pointer_lenient" /\ tool_call.made) =>
              /\ parse_json_pointer(path).ok => r = parse_json_pointer(path)
              /\ ~startswith(path, "/") => r = parse_json_pointer(<<"/">> \o path)

\* "/a~1b" was parsed to the one token "a/b"
ParsedEscapedSlash ==
    /\ tool_call.tool = "parse_json_pointer"
    /\ tool_call.made
    /\ tool_call.input = <<"/", "a", "~", "1", "b">>
    /\ tool_call.result = Parsed(<< <<"a", "/", "b">> >>)

\* C25: the value read_value returns has no object or array at depth
\* max_depth or deeper (the value read is at depth 0): every object or
\* array of the value that is returned at depth max_depth is replaced by
\* the string that gives its number of keys or items, and the containers
\* above that depth are returned as containers.
TruncationBound ==
    (tool_call.tool = "read_value" /\ tool_call.made /\ tool_call.result.found) =>
        LET returned == tool_call.result.value
            whole == Sub(tool_call.input.document, tool_call.input.path)
            max_depth == tool_call.input.max_depth
            max_array_items == tool_call.input.max_array_items
            \* q is where the "more items" string of a shortened array stands
            marker(q) ==
                /\ q # << >>
                /\ whole[SubSeq(q, 1, Len(q) - 1)] = "array"
                /\ ChildCount(whole, SubSeq(q, 1, Len(q) - 1)) > max_array_items
                /\ q[Len(q)] = IndexToken(max_array_items)
        IN  /\ DOMAIN returned \subseteq DOMAIN whole
            /\ \A q \in DOMAIN returned :
                  /\ Len(q) >= max_depth => returned[q] \notin {"object", "array"}
                  /\ (Len(q) = max_depth /\ ~marker(q) /\ whole[q] = "object") =>
                        returned[q] = KeysPlaceholder(ChildCount(whole, q))
                  /\ (Len(q) = max_depth /\ ~marker(q) /\ whole[q] = "array") =>
                        returned[q] = ItemsPlaceholder(ChildCount(whole, q))
                  /\ (Len(q) < max_depth /\ ~marker(q)) =>
                        (whole[q] \in {"object", "array"} => returned[q] = whole[q])

\* the root was read with max_depth 2 from a document with an array inside
\* the array "a": the inner array came back as its placeholder, "a" as an
\* array
InnerArrayReplaced ==
    /\ tool_call.tool = "read_value"
    /\ tool_call.made
    /\ tool_call.input.path = << >>
    /\ tool_call.input.max_depth = 2
    /\ <<"a", "0">> \in DOMAIN tool_call.input.document
    /\ tool_call.input.document[<<"a", "0">>] = "array"
    /\ tool_call.result.value[<<"a">>] = "array"
    /\ tool_call.result.value[<<"a", "0">>] = ItemsPlaceholder(0)

Searched == tool_call.tool = "search_pointer" /\ tool_call.made

\* C26: search_pointer returns on every input, also when a dict or list
\* contains itself, and returns at most limit matches, whatever limit >= 0.
SearchEndsWithinLimit ==
    Searched =>
        /\ tool_call.result.returned
        /\ tool_call.result.count = Len(tool_call.result.matches)
        /\ tool_call.result.count <= tool_call.input.limit

\* a dict whose member "j" is the dict itself was searched by key: the key
\* was matched once and the search returned
SearchedSelfReference ==
    /\ Searched
    /\ tool_call.input.document[1] = [kind |-> "dict", items |-> <<[key |-> <<"j">>, val |-> Ref(1)]>>]
    /\ tool_call.input.search_type = "key"
    /\ tool_call.input.query = << >>
    /\ tool_call.input.limit = 2
    /\ tool_call.result.returned
    /\ tool_call.result.matches = <<[pointer |-> <<"/", "j">>, key |-> <<"j">>]>>

\* C27: every result of search_pointer whose count equals limit has
\* truncated true, wherever in the traversal the limit-th match was found.
TruncatedAtLimit ==
    (Searched /\ tool_call.result.count = tool_call.input.limit)
        => tool_call.result.truncated

FinalizedOnlyUntilFinalizeStep ==
    /\ is_chunk_finalized <=>
            /\ pc = "finalize_chunk"
            /\ LastAIMessage(messages).content.parses
            /\ IsFinalizeOnly(PendingActions)
    /\ is_chunk_finalized =>
            /\ finalize_seen.seen
            /\ actions_results = <<[action |-> "update_guidance",
                                    result |-> update_guidance(finalize_seen.input)]>>

\* the second chunk was finalized by a finalize-only turn, after a turn of
\* other actions
SecondChunkFinalized ==
    /\ is_chunk_finalized
    /\ pc = "finalize_chunk"
    /\ current_chunk_idx = 1
    /\ iteration_count = 2

\* C33: when a chunk is left because the iteration cap was hit without a
\* finalize-only turn, the finalize_chunk step advances current_chunk_idx by
\* exactly one, clears is_chunk_finalized and actions_results, sets no
\* error, and leaves guidance at the value it had before the chunk: the
\* guidance of the last finalize-only turn of the run, or the empty initial
\* guidance, which is the guidance the prompt of the chunk was built with.
ForcedFinalizeKeepsBaton ==
    [][(pc = "finalize_chunk" /\ ~is_chunk_finalized /\ iteration_count >= max_iterations) =>
          /\ current_chunk_idx' = current_chunk_idx + 1
          /\ is_chunk_finalized' = FALSE
          /\ actions_results' = << >>
          /\ error' = error
          /\ guidance' = guidance
          /\ guidance' = IF finalize_seen.seen THEN update_guidance(finalize_seen.input).guidance
                         ELSE EmptyGuidance
          /\ SystemPrompt(messages).guidance_str =
                IF guidance' = EmptyGuidance THEN JsonNull ELSE json_dumps(guidance')
          /\ pc' = "prepare_chunk"]_vars

\* the first chunk was finalized by a finalize-only turn and the second was
\* left at the cap after a turn of other actions: the guidance is still the
\* one the second chunk was prepared with
BatonCarriedOverForcedFinalize ==
    /\ pc = "prepare_chunk"
    /\ current_chunk_idx = 2
    /\ error = None
    /\ CallsFor(1) = max_iterations
    /\ LastAIMessage(messages).content.parses
    /\ ~IsFinalizeOnly(PendingActions)
    /\ actions_results = << >>
    /\ guidance # EmptyGuidance
    /\ SystemPrompt(messages).guidance_str = json_dumps(guidance)

\* C34: a chunk is left only through finalize_chunk, which is entered only
\* after execute_tools, and execute_tools goes to finalize_chunk exactly
\* when is_chunk_finalized is true, or iteration_count >= max_iterations,
\* or error is set; in every other case it goes to call_llm for the same
\* chunk.  Every model call is followed by execute_tools, which makes no
\* model call and is not followed by itself.
ChunkLeftForThreeReasons ==
    [][/\ pc = "execute_tools" =>
            /\ pc' = "finalize_chunk" <=>
                    \/ is_chunk_finalized'
                    \/ iteration_count' >= max_iterations'
                    \/ error' # None
            /\ pc' # "finalize_chunk" =>
                    /\ pc' = "call_llm"
                    /\ current_chunk_idx' = current_chunk_idx
                    /\ current_chunk' = current_chunk
            /\ llm_calls' = llm_calls
       /\ pc' = "finalize_chunk" => pc = "execute_tools"
       /\ current_chunk_idx' # current_chunk_idx => pc = "finalize_chunk"
       /\ llm_calls' # llm_calls =>
            /\ pc = "call_llm"
            /\ pc' = "execute_tools"]_vars

\* the first chunk was left after one call by a finalize-only turn; the
\* second went on after its first turn and was left at the cap
LeftByFinalizeThenByCap ==
    /\ pc = "finalize_chunk"
    /\ current_chunk_idx = 1
    /\ CallsFor(0) = 1
    /\ finalize_seen.seen
    /\ max_iterations = 2
    /\ iteration_count = 2
    /\ ~is_chunk_finalized
    /\ error = None

\* the position among the members of obj of the member a decoded token
\* addresses: the member of that key of a dict, the item of that index of
\* a list; 0 when there is none
MemberAt(heap, obj, token) ==
    LET items == heap[obj].items
        at == {k \in 1..Len(items) :
                  IF heap[obj].kind = "dict" THEN items[k].key = token
                  ELSE <<IndexToken(k - 1)>> = token}
    IN  IF at = {} THEN 0 ELSE CHOOSE k \in at : TRUE

\* the positions passed when tokens are resolved from obj, one for each
\* token; a 0 in it says that the tokens address nothing
RECURSIVE Route(_, _, _)
Route(heap, obj, tokens) ==
    IF tokens = << >> THEN << >>
    ELSE Bind(MemberAt(heap, obj, Head(tokens)), LAMBDA k :
            IF k = 0 THEN <<0>>
            ELSE IF Len(tokens) = 1 THEN <<k>>
            ELSE IF heap[obj].items[k].val.t # "ref" THEN <<k, 0>>
            ELSE <<k>> \o Route(heap, heap[obj].items[k].val.id, Tail(tokens)))

\* the member at the end of a route, with the kind of its container
RECURSIVE NodeAt(_, _, _)
NodeAt(heap, obj, route) ==
    IF Len(route) = 1
    THEN [kind |-> heap[obj].kind, key |-> heap[obj].items[route[1]].key,
          val |-> heap[obj].items[route[1]].val]
    ELSE NodeAt(heap, heap[obj].items[route[1]].val.id, Tail(route))

\* depth-first document order of two routes: a container before its
\* members, a member and all below it before the members after it
Before(p, q) ==
    \E n \in 0..Len(p) :
        /\ n <= Len(q)
        /\ SubSeq(p, 1, n) = SubSeq(q, 1, n)
        /\ \/ n = Len(p) /\ n < Len(q)
           \/ n < Len(p) /\ n < Len(q) /\ p[n + 1] < q[n + 1]

\* the route of the i-th match of the call: its pointer parsed with
\* parse_json_pointer and resolved from the document searched
MatchRoute(i) ==
    Route(tool_call.input.document, 1,
          parse_json_pointer(tool_call.result.matches[i].pointer).tokens)

\* C35: in value mode every match of search_pointer is a scalar member (not
\* a dict or list) whose text matches the query, in key mode a key of a
\* dict that matches the query; in both modes the pointer of the match,
\* decoded by RFC 6901 and resolved against the document searched,
\* addresses exactly that member, and the matches are in depth-first
\* document order.
SearchReportsMatchedNodes ==
    Searched =>
        \A i \in 1..Len(tool_call.result.matches) :
            /\ parse_json_pointer(tool_call.result.matches[i].pointer).ok
            /\ MatchRoute(i) # << >>
            /\ \A k \in 1..Len(MatchRoute(i)) : MatchRoute(i)[k] # 0
            /\ Bind(NodeAt(tool_call.input.document, 1, MatchRoute(i)), LAMBDA node :
                    IF tool_call.input.search_type = "value"
                    THEN /\ node.val.t = "val"
                         /\ tool_call.result.matches[i].matched_value = str(node.val.label)
                         /\ _matches(str(node.val.label), tool_call.input.query, FALSE)
                    ELSE /\ node.kind = "dict"
                         /\ tool_call.result.matches[i].key = node.key
                         /\ _matches(node.key, tool_call.input.query, FALSE))
            /\ \A j \in 1..(i - 1) : Before(MatchRoute(j), MatchRoute(i))

\* {"~/": [1, "J"], "j": "J"} was searched by value for "J": the item of the
\* list under the escaped key came first, then the member after the list
SearchedUnderEscapedKey ==
    /\ Searched
    /\ tool_call.input.document[1] =
            [kind |-> "dict", items |-> <<[key |-> <<"~", "/">>, val |-> Ref(2)],
                                         [key |-> <<"j">>, val |-> Val(StrJ)]>>]
    /\ tool_call.input.document[2] =
            [kind |-> "list", items |-> <<[key |-> << >>, val |-> Val(NumOne)],
                                         [key |-> << >>, val |-> Val(StrJ)]>>]
    /\ tool_call.input.search_type = "value"
    /\ tool_call.input.query = <<"J">>
    /\ tool_call.result.matches =
            <<[pointer |-> <<"/", "~", "0", "~", "1", "/", "1">>, matched_value |-> <<"J">>],
              [pointer |-> <<"/", "j">>, matched_value |-> <<"J">>]>>

\* two characters that differ at most in case
SameLetter(c, d) ==
    \/ c = d
    \/ {c, d} \in {{"a", "A"}, {"c", "C"}, {"j", "J"}, {"x", "X"}}

\* word occurs in s as a run of consecutive characters, case ignored
ContainsIgnoringCase(s, word) ==
    \E off \in 0..(Len(s) - Len(word)) :
        \A i \in 1..Len(word) : SameLetter(s[off + i], word[i])

\* the whitespace-delimited words of s: its maximal runs of characters
\* that are not whitespace
WordsOf(s) ==
    {SubSeq(s, i, j) : <<i, j>> \in
        {ij \in (1..Len(s)) \X (1..Len(s)) :
            /\ ij[1] <= ij[2]
            /\ \A k \in ij[1]..ij[2] : s[k] \notin Whitespace
            /\ ij[1] = 1 \/ s[ij[1] - 1] \in Whitespace
            /\ ij[2] = Len(s) \/ s[ij[2] + 1] \in Whitespace}}

\* C36: in exact mode a candidate matches iff it contains the whole query
\* as a substring, case ignored; in fuzzy mode iff it contains every
\* whitespace-delimited word of the query as a substring, case ignored, in
\* any order; so a candidate that matches in exact mode matches in fuzzy
\* mode as well.
MatchingModes ==
    (tool_call.tool = "_matches" /\ tool_call.made) =>
        /\ tool_call.result.exact <=>
                ContainsIgnoringCase(tool_call.input.text_, tool_call.input.query)
        /\ tool_call.result.fuzzy <=>
                \A word \in WordsOf(tool_call.input.query) :
                    ContainsIgnoringCase(tool_call.input.text_, word)
        /\ tool_call.result.exact => tool_call.result.fuzzy

\* "Client X Corp" was matched against "x  client": the words are there in
\* another order and another case, so fuzzy mode matched and exact mode
\* did not
FuzzyMatchedOutOfOrder ==
    /\ tool_call.tool = "_matches"
    /\ tool_call.made
    /\ Len(tool_call.input.text_) = 13
    /\ Head(tool_call.input.query) = "x"
    /\ tool_call.result.fuzzy
    /\ ~tool_call.result.exact

\* C40: for every base that parse_json_pointer accepts, "" and "/"
\* included, and every token, parse_json_pointer(join_pointer(base, token))
\* is parse_json_pointer(base) followed by the token.
JoinAgreesWithParse ==
    (/\ tool_call.tool = "join_pointer"
     /\ tool_call.made
     /\ parse_json_pointer(tool_call.base).ok)
    => parse_json_pointer(tool_call.result) =
          Parsed(Append(parse_json_pointer(tool_call.base).tokens, tool_call.token))

\* what app.invoke returns when the run has ended: the value of every
\* channel that was given one ("error" is written by a failing node only)
app_invoke ==
    [k \in {"json_document", "chunks", "guidance"}
            \cup (IF error # None THEN {"error"} ELSE {}) |->
        CASE k = "json_document" -> json_document
          [] k = "chunks" -> chunks
          [] k = "guidance" -> guidance
          [] OTHER -> error]

NoActionsIsFatal ==
    [][/\ (/\ pc = "execute_tools"
           /\ LastAIMessage(messages).content.parses
           /\ PendingActions = << >>) =>
              /\ error' = "No actions specified by the LLM."
              /\ json_document' = json_document
              /\ guidance' = guidance
              /\ actions_results' = actions_results
              /\ is_chunk_finalized' = is_chunk_finalized
              /\ pc' = "finalize_chunk"
       /\ error = "No actions specified by the LLM." =>
              /\ error' = error
              /\ llm_calls' = llm_calls
              /\ json_document' = json_document
              /\ guidance' = guidance
              /\ pc' \in {"prepare_chunk", "__end__"}]_vars

\* the first reply for the second chunk had no "actions" key: error is set
\* below the cap, nothing was run, and the document and the guidance are
\* those the first chunk left
MissingActionsSetError ==
    /\ pc = "finalize_chunk"
    /\ error = "No actions specified by the LLM."
    /\ LastAIMessage(messages).content = NoActionsKey
    /\ current_chunk_idx = 1
    /\ iteration_count = 1
    /\ max_iterations = 2
    /\ json_document # EmptyObj
    /\ guidance # EmptyGuidance
    /\ actions_results = << >>
    /\ ~is_chunk_finalized

\* the messages of a history that are tool observations
Observations(msgs) ==
    SelectSeq(msgs, LAMBDA msg : msg.type = "human" /\ "observations" \in DOMAIN msg.content)

\* C38: observations do not leak across chunks or turns: the first model
\* call of a chunk is made with an empty result buffer and is given no
\* observation, whatever ended the chunk before it; the results a turn
\* leaves are the results of its own actions only, and a later call is
\* given exactly one observation, the rendering of these results; no
\* observation is kept in the history.
ObservationsDoNotLeak ==
    [][/\ (pc = "call_llm" /\ iteration_count = 0) =>
            /\ actions_results = << >>
            /\ pc' = "execute_tools"
            /\ Observations(llm_input') = << >>
       /\ (pc = "execute_tools" /\ pc' = "call_llm") =>
            /\ actions_results' =
                  DispatchFrom(PendingActions, 1, json_document, << >>).actions_results
            /\ Len(actions_results') = Len(PendingActions)
       /\ (pc = "call_llm" /\ iteration_count >= 1 /\ pc' = "execute_tools") =>
            /\ Observations(llm_input') =
                  <<HumanMessage([observations |-> [json |-> actions_results]])>>
            /\ llm_input'[Len(llm_input')] = Observations(llm_input')[1]
       /\ Observations(messages') = << >>]_vars

\* the first chunk was left at the cap after two turns of tool actions, and
\* the first model call of the second chunk was made: it got the prompt of
\* that chunk and no observation
FirstCallAfterForcedFinalize ==
    /\ pc = "execute_tools"
    /\ current_chunk_idx = 1
    /\ iteration_count = 1
    /\ max_iterations = 2
    /\ CallsFor(0) = 2
    /\ ~finalize_seen.seen
    /\ error = None
    /\ actions_results = << >>
    /\ Observations(llm_input) = << >>
    /\ Len(llm_input) = 2

====
